---- MODULE Spec2Model ----
(***************************************************************************)
(* Wake-on-access proxy with idle-lifecycle coordination                   *)
(* (backend/app: docker_manager.py, comfyui_client.py, idle_monitor.py,    *)
(* proxy.py, routes/api.py).                                               *)
(*                                                                         *)
(* The application runs on one asyncio event loop.  A coroutine runs       *)
(* without interruption until it reaches an await that really suspends     *)
(* (an outbound HTTP call or a sleep), so every action below is the code   *)
(* between two suspension points.  DockerManager.start_container and       *)
(* stop_container are declared async but contain no await: awaiting them   *)
(* never yields to the loop.                                               *)
(***************************************************************************)
EXTENDS Integers, Sequences, FiniteSets, TLC

\* ------------------------------------------------------------------ bounds
TickSeconds == 60          \* granularity of the modelled wall clock
MaxTicks == 2              \* the clock stops advancing after this many ticks
MaxRequests == 2           \* concurrent proxy requests
MaxJobs == 1               \* largest queue_running / queue_pending length
CountCap == 2              \* history counters saturate here
MaxEvents == 102           \* events logged over the life of the process
MaxCallbacks == 2          \* state callbacks registered with the monitor
MaxBody == 3               \* longest backend response body, in pieces
MaxThreads == 2            \* request threads of the thread-based manager
MaxCheckers == 2           \* idle-checker threads alive at a time
MaxProcs == 3              \* ComfyUI subprocesses spawned over a run

\* IdleMonitor._max_log_entries
max_log_entries == 100

\* Config.startup_timeout_seconds (not settable through PUT /api/config)
startup_timeout_seconds == 120

MaxTime == MaxTicks * TickSeconds
IdleTimeouts == {1, 2}     \* idle_timeout_minutes values the dashboard sets
PollIntervals == {60, 120} \* poll_interval_seconds values the dashboard sets

\* ------------------------------------------------------- ContainerState
RUNNING == "running"
STOPPED == "stopped"
STARTING == "starting"
STOPPING == "stopping"
ERROR == "error"
NOT_FOUND == "not_found"
ContainerState == {RUNNING, STOPPED, STARTING, STOPPING, ERROR, NOT_FOUND}

\* Docker's own status strings; "absent" stands for no such container.
Absent == "absent"
DockerStatuses == {"running", "restarting", "exited", "removing"}
None == "none"

VARIABLES
  now,               \* datetime.now(), in seconds
  container,         \* the live container: a Docker status or Absent
  comfy_up,          \* the HTTP server inside the container is listening
  state,             \* DockerManager._state
  state_changed_at,  \* DockerManager._state_changed_at
  last_activity,     \* ComfyUIClient._last_activity
  config,            \* the Config snapshot held by config_manager
  starting,          \* ProxyHandler._starting
  wait_pc,           \* the _wait_for_ready task: None, "created", "polling"
  wait_start,        \* start_time of wait_for_ready
  forwarding,        \* proxy requests suspended in _proxy_request
  mon_running,       \* IdleMonitor._running
  mon_pc,            \* the _monitor_loop task: None, "created", "poll", "notify", "sleep"
  mon_config,        \* the config read at the top of the current iteration
  mon_wake,          \* when the monitor's sleep ends
  status_pc,         \* GET /api/status: "idle" or "poll"
  proxy_starts,      \* start_container() calls by the proxy since _starting was last False
  activity_log,      \* IdleMonitor._activity_log: the events, oldest first
  mon_tasks,         \* _monitor_loop tasks created and neither cancelled nor ended
  state_callbacks,   \* IdleMonitor._state_callbacks, in registration order
  request,           \* the inbound HTTP request the application has routed
  response,          \* the backend response _proxy_request relays, and the relayed one
  last_status,       \* ComfyUIClient._last_status
  wait_tasks,        \* _wait_for_ready tasks created and not yet ended
  daemon_slow,       \* the Docker daemon may answer later than the client waits
  process,           \* ComfyUIManager.process: 0 for None, or the subprocess
  is_starting,       \* ComfyUIManager.is_starting
  lock,              \* ComfyUIManager.lock: 0, or the thread that holds it
  stop_idle_checker, \* ComfyUIManager._stop_idle_checker (the Event) is set
  manager_last_activity, \* ComfyUIManager.last_activity
  procs,             \* every subprocess: "unborn", "alive" or "dead"
  port_up,           \* ComfyUI answers on its port (is_responsive)
  threads,           \* where each request thread and checker thread is
  mgr_ev,            \* the last spawn or kill of the thread-based manager
  ev                 \* what the last handler step did

vars == <<now, container, comfy_up, state, state_changed_at, last_activity,
          config, starting, wait_pc, wait_start, forwarding, mon_running, mon_pc,
          mon_config, mon_wake, status_pc, proxy_starts, activity_log,
          mon_tasks, state_callbacks, request, response, last_status,
          wait_tasks, daemon_slow, process, is_starting, lock,
          stop_idle_checker, manager_last_activity, procs, port_up, threads,
          mgr_ev, ev>>

envVars == <<now, container, comfy_up>>
ctlVars == <<state, state_changed_at>>
proxyVars == <<starting, wait_pc, wait_start, forwarding>>
monVars == <<mon_running, mon_pc, mon_config, mon_wake, activity_log,
             mon_tasks>>
sideVars == <<state_callbacks, request, response, last_status>>
flagVars == <<wait_tasks, daemon_slow>>
mgrVars == <<process, is_starting, lock, stop_idle_checker,
             manager_last_activity, procs, port_up, threads, mgr_ev>>
auxVars == <<sideVars, flagVars, mgrVars>>

Min(a, b) == IF a < b THEN a ELSE b
Bump(n) == Min(n + 1, CountCap)

\* The record of one handler step; fields not concerning the step keep
\* these defaults.
NoEv == [op |-> "none", resp |-> "-", observed |-> "-",
         live |-> "-", auto |-> "-", outcome |-> "-",
         flag_before |-> FALSE, start_calls |-> 0, start_actions |-> 0,
         stop_calls |-> 0, stop_actions |-> 0, success |-> "-",
         result_state |-> "-", connected |-> "-",
         running |-> -1, pending |-> -1,
         idle_before |-> -1, timeout_minutes |-> -1,
         container_before |-> "-", touched |-> "-",
         raised |-> FALSE, logged |-> <<>>, event |-> 0,
         elapsed |-> -1, cancelled_at |-> "-",
         notified |-> <<>>, failed |-> {}, start_raised |-> FALSE]

\* The part of a step record that a start_container / stop_container call
\* fills in: c is the container the call fetched, res its result.
CallEv(c, res) ==
  [success |-> res.success, result_state |-> res.result_state,
   container_before |-> c]

\* The part of a step record that an assignment to _last_activity fills in:
\* whether the new value la is later than, equal to or earlier than the old.
TouchEv(la) ==
  [touched |-> IF la > last_activity THEN "later"
               ELSE IF la = last_activity THEN "same" ELSE "earlier"]

\* r with the fields of the record u replaced by u's values
Upd(r, u) == [f \in DOMAIN r |-> IF f \in DOMAIN u THEN u[f] ELSE r[f]]

\* ----------------------------------------------------------- DockerManager
\* _get_container: None when the container does not exist or the Docker API
\* call fails (docker_ok = FALSE), else the container with its status.
GetContainer(docker_ok) ==
  IF container = Absent \/ ~docker_ok THEN None ELSE container

\* get_status: the state mapped from the Docker status of container c.
StatusToState(c) ==
  IF c = None THEN NOT_FOUND
  ELSE IF c = "running" THEN RUNNING
  ELSE IF c \in {"created", "restarting"} THEN STARTING
  ELSE IF c \in {"paused", "exited", "dead"} THEN STOPPED
  ELSE ERROR

\* Whether container.reload() on line 80 of get_status can fail: only a
\* fetched container is reloaded.  It fails when the container is removed
\* after it was fetched, or when the Docker API fails.
ReloadOutcomesFor(c) == IF c = None THEN {TRUE} ELSE BOOLEAN

\* get_status on the fetched container c: whether the call raised, the state
\* in the dict it returned, and the state left in _state.  The state is
\* assigned before the reload, outside any try.
GetStatus(c, reload_ok) ==
  IF c = None THEN
    [raised |-> FALSE, state |-> NOT_FOUND, cached |-> NOT_FOUND]
  ELSE IF ~reload_ok THEN
    [raised |-> TRUE, state |-> "-", cached |-> StatusToState(c)]
  ELSE
    [raised |-> FALSE, state |-> StatusToState(c), cached |-> StatusToState(c)]

\* What container.start() followed by reload() can report.
StartOutcomes == {"running", "restarting", "exited", "api_error"}
\* What container.stop(timeout=30) can report.
StopOutcomes == {"exited", "api_error"}

\* The outcomes that matter to a start_container / stop_container call on the
\* fetched container c: none when the call returns before the Docker action.
\* While the daemon is slow, container.start() can also end in the HTTP
\* client's read timeout, which is no docker.errors.APIError.
StartOutcomesFor(c) ==
  IF c = None \/ c = "running" THEN {"none"}
  ELSE StartOutcomes \cup (IF daemon_slow THEN {"read_timeout"} ELSE {})
StopOutcomesFor(c) ==
  IF c # "running" THEN {"none"} ELSE StopOutcomes

\* start_container without the test for a container that already runs.
StartContainerNoRunningCheck(c, outcome, st, sca) ==
  IF c = None THEN
    [success |-> FALSE, result_state |-> NOT_FOUND, container |-> container,
     state |-> st, changed_at |-> sca, actions |-> 0, raised |-> FALSE]
  ELSE
    [success |-> TRUE, result_state |-> RUNNING, container |-> "running",
     state |-> RUNNING, changed_at |-> now, actions |-> 1, raised |-> FALSE]

\* stop_container without the test for a container that does not run.
StopContainerNoRunningCheck(c, outcome, st, sca) ==
  IF c = None THEN
    [success |-> FALSE, result_state |-> NOT_FOUND, container |-> container,
     state |-> st, changed_at |-> sca, actions |-> 0]
  ELSE
    [success |-> TRUE, result_state |-> STOPPED, container |-> "exited",
     state |-> STOPPED, changed_at |-> now, actions |-> 1]

\* start_container on the fetched container c, with cached state st and
\* timestamp sca: the result dict, the new live status, the new cache and the
\* number of underlying container.start() invocations.  Only APIError is
\* caught (line 140): any other exception leaves the call (raised) after
\* the cache was set to Starting on line 116, and there is no result dict.
StartContainer(c, outcome, st, sca) ==
  IF c = None THEN
    [success |-> FALSE, result_state |-> NOT_FOUND, container |-> container,
     state |-> st, changed_at |-> sca, actions |-> 0, raised |-> FALSE]
  ELSE IF c = "running" THEN
    [success |-> TRUE, result_state |-> RUNNING, container |-> container,
     state |-> st, changed_at |-> sca, actions |-> 0, raised |-> FALSE]
  ELSE IF outcome = "read_timeout" THEN
    [success |-> FALSE, result_state |-> "-", container |-> container,
     state |-> STARTING, changed_at |-> now, actions |-> 1, raised |-> TRUE]
  ELSE IF outcome = "api_error" THEN
    [success |-> FALSE, result_state |-> ERROR, container |-> container,
     state |-> ERROR, changed_at |-> now, actions |-> 1, raised |-> FALSE]
  ELSE IF outcome = "running" THEN
    [success |-> TRUE, result_state |-> RUNNING, container |-> "running",
     state |-> RUNNING, changed_at |-> now, actions |-> 1, raised |-> FALSE]
  ELSE
    [success |-> TRUE, result_state |-> STARTING, container |-> outcome,
     state |-> STARTING, changed_at |-> now, actions |-> 1, raised |-> FALSE]

\* stop_container, likewise.
StopContainer(c, outcome, st, sca) ==
  IF c = None THEN
    [success |-> FALSE, result_state |-> NOT_FOUND, container |-> container,
     state |-> st, changed_at |-> sca, actions |-> 0]
  ELSE IF c # "running" THEN
    [success |-> TRUE, result_state |-> STOPPED, container |-> container,
     state |-> st, changed_at |-> sca, actions |-> 0]
  ELSE IF outcome = "api_error" THEN
    [success |-> FALSE, result_state |-> ERROR, container |-> container,
     state |-> ERROR, changed_at |-> now, actions |-> 1]
  ELSE
    [success |-> TRUE, result_state |-> STOPPED, container |-> "exited",
     state |-> STOPPED, changed_at |-> now, actions |-> 1]

\* The HTTP server inside the container stops listening with the container.
UpAfter(c) == IF c = "running" THEN comfy_up ELSE FALSE

\* ------------------------------------------------------------ ComfyUIClient
\* is_active asking for running and pending jobs both.
IsActiveBoth(running, pending) == running > 0 /\ pending > 0

\* QueueStatus.is_active
IsActive(running, pending) == running > 0 \/ pending > 0

\* What the GET /queue call can come to: the backend answers only when it is
\* listening.
PollOutcomes ==
  IF comfy_up THEN {"ok", "http_error", "unexpected"}
  ELSE {"refused", "timeout", "unexpected"}

\* get_queue_status: the QueueStatus built for a poll outcome.
QueueStatus(outcome, running, pending) ==
  IF outcome = "ok" THEN
    [running |-> running, pending |-> pending, connected |-> TRUE, error |-> FALSE]
  ELSE IF outcome = "http_error" THEN
    [running |-> 0, pending |-> 0, connected |-> TRUE, error |-> TRUE]
  ELSE
    [running |-> 0, pending |-> 0, connected |-> FALSE, error |-> TRUE]

\* get_queue_status taking every answered poll for activity.
ActivityAfterPollAnyAnswer(outcome, running, pending) ==
  IF outcome = "ok" THEN now ELSE last_activity

\* get_queue_status: _last_activity after the poll.
ActivityAfterPoll(outcome, running, pending) ==
  IF outcome = "ok" /\ IsActive(running, pending) THEN now ELSE last_activity

\* get_queue_status, lines 78-89 and 91-105: _last_status after the poll.
\* Only the path that built a QueueStatus from the answer stores it.
StatusAfterPoll(outcome, running, pending) ==
  IF outcome = "ok" THEN QueueStatus(outcome, running, pending)
  ELSE last_status

\* update_activity taking the controller's state-change timestamp.
UpdateActivityStale == state_changed_at

\* update_activity
UpdateActivity == now

\* seconds_since_activity, for a given _last_activity
SecondsSinceActivity(la) == now - la

\* is_healthy
IsHealthy == comfy_up

\* ------------------------------------------------------------------- Init
Configs == [idle_timeout_minutes : IdleTimeouts,
            poll_interval_seconds : PollIntervals,
            auto_start_enabled : BOOLEAN]
\* The configuration load() finds at startup.
InitConfigs == {c \in Configs : /\ c.idle_timeout_minutes = 1
                                 /\ c.poll_interval_seconds = 60}
\* _last_status before the first successful poll (None in the code).
NoStatus == [running |-> -1, pending |-> -1, connected |-> FALSE,
             error |-> FALSE]
\* No request routed yet.
NoRequest == [method |-> "-", path |-> <<>>, handler |-> "-"]
\* No response relayed yet.
NoResponse == [status_code |-> 0, content |-> <<>>,
               headers |-> [k \in {"content-length"} |-> 0]]
NoConfig == [idle_timeout_minutes |-> 0, poll_interval_seconds |-> 0,
             auto_start_enabled |-> FALSE]

\* A thread at rest: a request thread waiting for a request, a checker
\* thread that does not exist.
NoThread == [pc |-> "none", caller |-> "-", stop_from |-> "-", ok |-> FALSE,
             t0 |-> 0, idle |-> 0, target |-> 0]

\* The record of the last spawn or kill; the other steps leave NoMgrEv.
NoMgrEv == [op |-> "none", by |-> 0, proc |-> 0, others_alive |-> FALSE,
            starting_elsewhere |-> FALSE, idle |-> 0, in_flight |-> FALSE]

Init ==
  /\ now = 0
  /\ container \in DockerStatuses \cup {Absent}
  /\ comfy_up \in (IF container = "running" THEN BOOLEAN ELSE {FALSE})
  /\ state = STOPPED
  /\ state_changed_at = 0
  /\ last_activity = 0
  /\ config \in InitConfigs
  /\ starting = FALSE
  /\ wait_pc = None
  /\ wait_start = 0
  /\ forwarding = 0
  /\ mon_running = FALSE
  /\ mon_pc = None
  /\ mon_config = NoConfig
  /\ mon_wake = 0
  /\ status_pc = "idle"
  /\ proxy_starts = 0
  /\ activity_log = <<>>
  /\ mon_tasks = 0
  /\ state_callbacks = <<>>
  /\ request = NoRequest
  /\ last_status = NoStatus
  /\ wait_tasks = 0
  /\ daemon_slow = FALSE
  /\ process = 0
  /\ is_starting = FALSE
  /\ lock = 0
  /\ stop_idle_checker = FALSE
  /\ manager_last_activity = 0
  /\ procs = [p \in 1..MaxProcs |-> "unborn"]
  /\ port_up = FALSE
  /\ threads = [t \in 1..(MaxThreads + MaxCheckers) |-> NoThread]
  /\ mgr_ev = NoMgrEv
  /\ response = [backend |-> NoResponse, relayed |-> NoResponse]
  /\ ev = NoEv

\* ------------------------------------------------------------ environment
\* Time passes.
Tick ==
  /\ now + TickSeconds <= MaxTime
  /\ now' = now + TickSeconds
  /\ ev' = NoEv
  /\ UNCHANGED <<container, comfy_up, ctlVars, last_activity, config, auxVars,
                 proxyVars, monVars, status_pc, proxy_starts>>

\* Docker changes the container outside the manager: it is created, removed,
\* crashes, restarts, or is started or stopped by hand.
EnvContainer ==
  /\ \E c \in (DockerStatuses \cup {Absent}) \ {container} :
       /\ container' = c
       /\ comfy_up' = UpAfter(c)
  /\ ev' = NoEv
  /\ UNCHANGED <<now, ctlVars, last_activity, config, auxVars, proxyVars, monVars,
                 status_pc, proxy_starts>>

\* The Docker daemon becomes slow to answer (it is busy, or the container's
\* start hangs), or answers in time again.  docker.DockerClient is created
\* with the default timeout (docker_manager.py line 40).
EnvDaemon ==
  /\ daemon_slow' = ~daemon_slow
  /\ ev' = NoEv
  /\ UNCHANGED <<envVars, ctlVars, last_activity, config, sideVars, wait_tasks, mgrVars,
                 proxyVars, monVars, status_pc, proxy_starts>>

\* The HTTP server inside a running container comes up or goes away.
EnvComfy ==
  /\ container = "running"
  /\ comfy_up' = ~comfy_up
  /\ ev' = NoEv
  /\ UNCHANGED <<now, container, ctlVars, last_activity, config, auxVars, proxyVars,
                 monVars, status_pc, proxy_starts>>

\* ------------------------------------------------------------ ProxyHandler
\* handle_request with the starting test placed before the Running test.
ProxyDecisionFlagFirst(cs, flag, auto) ==
  IF cs = STARTING \/ flag THEN "starting_page"
  ELSE IF cs = RUNNING THEN "forward"
  ELSE IF auto THEN "start_and_wait"
  ELSE "stopped_page"

\* handle_request starting the container whatever auto_start_enabled says.
ProxyDecisionAlwaysStart(cs, flag, auto) ==
  IF cs = RUNNING THEN "forward"
  ELSE IF cs = STARTING \/ flag THEN "starting_page"
  ELSE "start_and_wait"

\* handle_request without the test on lines 151-156.
ProxyDecisionNoStartingTest(cs, flag, auto) ==
  IF cs = RUNNING THEN "forward"
  ELSE IF auto THEN "start_and_wait"
  ELSE "stopped_page"

\* handle_request testing auto_start_enabled before the starting test.
ProxyDecisionStoppedFirst(cs, flag, auto) ==
  IF cs = RUNNING THEN "forward"
  ELSE IF ~auto THEN "stopped_page"
  ELSE IF cs = STARTING \/ flag THEN "starting_page"
  ELSE "start_and_wait"

\* handle_request, lines 139-165: what to do for the inspected state cs.
ProxyDecision(cs, flag, auto) ==
  IF cs = RUNNING THEN "forward"
  ELSE IF cs = STARTING \/ flag THEN "starting_page"
  ELSE IF auto THEN "start_and_wait"
  ELSE "stopped_page"

\* handle_request, state Running: the request is handed to _proxy_request,
\* which suspends on the outbound call.
ForwardBegin(cs, e) ==
  /\ forwarding < MaxRequests
  /\ forwarding' = forwarding + 1
  /\ state' = cs
  /\ ev' = e
  /\ UNCHANGED <<envVars, state_changed_at, config, auxVars, starting, wait_pc,
                 wait_start, monVars, status_pc, proxy_starts>>

\* handle_request, lines 152-156 and 161-165: a 503 page, nothing else.
\* The same holds when get_status raised: the exception leaves the handler
\* and nothing else is done.
Page(cs, e, page) ==
  /\ state' = cs
  /\ ev' = Upd(e, [resp |-> page])
  /\ UNCHANGED <<envVars, state_changed_at, config, auxVars, proxyVars, monVars,
                 status_pc, proxy_starts>>

\* _start_and_wait clearing the flag as soon as start_container() has
\* returned, before the readiness wait it creates has ended.
FlagAfterStartCleared(res) == FALSE

\* _start_and_wait, lines 169-179: the flag set on line 170 is cleared only
\* when start_container() returns a failure; an exception raised by it
\* leaves _start_and_wait at line 175 with the flag still set.
FlagAfterStart(res) == res.success \/ res.raised

\* _start_and_wait with the flag left unset (the assignment on line 170
\* missing).
StartAndWaitNoFlag(cs, e) ==
  \E docker_ok \in BOOLEAN :
    \E outcome \in StartOutcomesFor(GetContainer(docker_ok)) :
    LET c == GetContainer(docker_ok)
        res == StartContainer(c, outcome, cs, state_changed_at)
    IN /\ container' = res.container
       /\ comfy_up' = UpAfter(res.container)
       /\ state' = res.state
       /\ state_changed_at' = res.changed_at
       /\ starting' = FALSE
       /\ wait_pc' = IF res.success THEN "created" ELSE wait_pc
       /\ wait_tasks' = IF res.success THEN Bump(wait_tasks)
                        ELSE wait_tasks
       /\ proxy_starts' = IF res.success THEN Bump(proxy_starts) ELSE 0
       /\ ev' = Upd(Upd(e, CallEv(c, res)),
                    [resp |-> IF res.success THEN "starting_503"
                              ELSE "start_failed_500",
                     start_calls |-> 1, start_actions |-> res.actions])
       /\ UNCHANGED <<now, config, sideVars, daemon_slow, mgrVars, wait_start,
                      forwarding, monVars, status_pc>>

\* _start_and_wait awaiting wait_for_ready itself instead of creating a task:
\* the request is suspended in the readiness wait and has no response yet.
StartAndWaitInline(cs, e) ==
  IF ~starting THEN
    \E docker_ok \in BOOLEAN :
      \E outcome \in StartOutcomesFor(GetContainer(docker_ok)) :
      LET c == GetContainer(docker_ok)
          res == StartContainer(c, outcome, cs, state_changed_at)
      IN /\ container' = res.container
         /\ comfy_up' = UpAfter(res.container)
         /\ state' = res.state
         /\ state_changed_at' = res.changed_at
         /\ starting' = res.success
         /\ wait_pc' = IF res.success THEN "polling" ELSE wait_pc
         /\ wait_start' = IF res.success THEN now ELSE wait_start
         /\ proxy_starts' = IF res.success THEN Bump(proxy_starts) ELSE 0
         /\ ev' = Upd(Upd(e, CallEv(c, res)),
                      [resp |-> IF res.success THEN "-"
                                ELSE "start_failed_500",
                       start_calls |-> 1, start_actions |-> res.actions])
         /\ UNCHANGED <<now, config, auxVars, forwarding, monVars, status_pc>>
  ELSE
    Page(cs, e, "starting_503")

\* _start_and_wait leaving the flag set when start_container() fails (the
\* assignment on line 179 missing).
StartAndWaitKeepFlag(cs, e) ==
  IF ~starting THEN
    \E docker_ok \in BOOLEAN :
      \E outcome \in StartOutcomesFor(GetContainer(docker_ok)) :
      LET c == GetContainer(docker_ok)
          res == StartContainer(c, outcome, cs, state_changed_at)
      IN /\ container' = res.container
         /\ comfy_up' = UpAfter(res.container)
         /\ state' = res.state
         /\ state_changed_at' = res.changed_at
         /\ starting' = TRUE
         /\ wait_pc' = IF res.success THEN "created" ELSE wait_pc
         /\ wait_tasks' = IF res.success THEN Bump(wait_tasks)
                          ELSE wait_tasks
         /\ proxy_starts' = Bump(proxy_starts)
         /\ ev' = Upd(Upd(e, CallEv(c, res)),
                      [resp |-> IF res.success THEN "starting_503"
                                ELSE "start_failed_500",
                       start_calls |-> 1, start_actions |-> res.actions])
         /\ UNCHANGED <<now, config, sideVars, daemon_slow, mgrVars, wait_start,
                        forwarding, monVars, status_pc>>
  ELSE
    Page(cs, e, "starting_503")

\* _start_and_wait: set the flag, start the container, and on success
\* schedule _wait_for_ready; on failure clear the flag.
StartAndWait(cs, e) ==
  IF ~starting THEN
    \E docker_ok \in BOOLEAN :
      \E outcome \in StartOutcomesFor(GetContainer(docker_ok)) :
      LET c == GetContainer(docker_ok)
          res == StartContainer(c, outcome, cs, state_changed_at)
      IN /\ container' = res.container
         /\ comfy_up' = UpAfter(res.container)
         /\ state' = res.state
         /\ state_changed_at' = res.changed_at
         /\ starting' = FlagAfterStart(res)
         /\ wait_pc' = IF res.success THEN "created" ELSE wait_pc
         /\ wait_tasks' = IF res.success THEN Bump(wait_tasks)
                          ELSE wait_tasks
         /\ proxy_starts' = IF FlagAfterStart(res) THEN Bump(proxy_starts)
                            ELSE 0
         /\ ev' = Upd(Upd(e, CallEv(c, res)),
                      [resp |-> IF res.raised THEN "unhandled_exception"
                                ELSE IF res.success THEN "starting_503"
                                ELSE "start_failed_500",
                       start_raised |-> res.raised,
                       start_calls |-> 1, start_actions |-> res.actions])
         /\ UNCHANGED <<now, config, sideVars, daemon_slow, mgrVars, wait_start,
                        forwarding, monVars, status_pc>>
  ELSE
    Page(cs, e, "starting_503")

\* handle_request updating the activity only once get_status has returned.
ActivityOnRequestAfterInspect(inspect_raised) ==
  IF inspect_raised THEN last_activity ELSE UpdateActivity

\* handle_request, line 131: update_activity() is called before get_status(),
\* so _last_activity is assigned whether or not the inspection raises.
ActivityOnRequest(inspect_raised) == UpdateActivity

\* handle_request up to its first suspension, its response, or the exception
\* that get_status raised and nothing in the handler catches.
HandleRequest ==
  \E docker_ok \in BOOLEAN :
  \E reload_ok \in ReloadOutcomesFor(GetContainer(docker_ok)) :
    LET c == GetContainer(docker_ok)
        gs == GetStatus(c, reload_ok)
        cs == gs.cached
        la == ActivityOnRequest(gs.raised)
        d == ProxyDecision(cs, starting, config.auto_start_enabled)
        e == Upd(Upd(NoEv, TouchEv(la)),
                 [op |-> "request", observed |-> gs.state,
                  raised |-> gs.raised,
                  live |-> container, flag_before |-> starting,
                  auto |-> config.auto_start_enabled])
    IN /\ last_activity' = la
       /\ IF gs.raised THEN Page(cs, e, "unhandled_exception")
          ELSE CASE d = "forward" -> ForwardBegin(cs, e)
                 [] d = "starting_page" -> Page(cs, e, "starting_503")
                 [] d = "start_and_wait" -> StartAndWait(cs, e)
                 [] d = "stopped_page" -> Page(cs, e, "stopped_503")

\* What the outbound request of _proxy_request can come to.
ForwardOutcomes ==
  IF comfy_up THEN {"ok", "error"} ELSE {"refused", "timeout", "error"}

\* _proxy_request with connection failures falling into the generic handler.
ForwardResponseAllErrors(outcome) ==
  IF outcome = "ok" THEN "forward" ELSE "proxy_error_502"

\* _proxy_request lines 269-286 and handle_request lines 143-149: the
\* response for a forward outcome.
ForwardResponse(outcome) ==
  IF outcome = "ok" THEN "forward"
  ELSE IF outcome \in {"refused", "timeout"} THEN "initializing_503"
  ELSE "proxy_error_502"

\* The outbound request of a forwarded request returns or fails.
ForwardDone ==
  /\ forwarding > 0
  /\ forwarding' = forwarding - 1
  /\ \E outcome \in ForwardOutcomes :
       ev' = Upd(NoEv, [op |-> "forward_done",
                        outcome |-> outcome, live |-> container,
                        flag_before |-> starting,
                        resp |-> ForwardResponse(outcome)])
  /\ UNCHANGED <<envVars, ctlVars, last_activity, config, auxVars, starting, wait_pc,
                 wait_start, monVars, status_pc, proxy_starts>>

\* _wait_for_ready starts running: wait_for_ready takes its start time.
WaitBegin ==
  /\ wait_pc = "created"
  /\ wait_pc' = "polling"
  /\ wait_start' = now
  /\ ev' = Upd(NoEv, [op |-> "wait_begin", flag_before |-> starting])
  /\ UNCHANGED <<envVars, ctlVars, last_activity, config, auxVars, starting, forwarding,
                 monVars, status_pc, proxy_starts>>

\* wait_for_ready with a loop that no elapsed time ends.
WithinTimeoutForever(started, timeout_seconds) == TRUE

\* wait_for_ready, line 126: the loop goes on.
WithinTimeout(started, timeout_seconds) == now - started < timeout_seconds

\* _wait_for_ready ends, by a healthy poll or by the timeout, and clears the
\* flag.  A poll that finds the backend not healthy only sleeps.
WaitDone ==
  /\ wait_pc = "polling"
  /\ \/ /\ WithinTimeout(wait_start, startup_timeout_seconds)
        /\ IsHealthy
        /\ ev' = Upd(NoEv, [op |-> "wait_done", outcome |-> "ready",
                            elapsed |-> now - wait_start,
                            flag_before |-> starting])
     \/ /\ ~WithinTimeout(wait_start, startup_timeout_seconds)
        /\ ev' = Upd(NoEv, [op |-> "wait_done", outcome |-> "timeout",
                            elapsed |-> now - wait_start,
                            flag_before |-> starting])
  /\ starting' = FALSE
  /\ wait_pc' = None
  /\ wait_tasks' = wait_tasks - 1
  /\ wait_start' = 0
  /\ proxy_starts' = 0
  /\ UNCHANGED <<envVars, ctlVars, last_activity, config, sideVars, daemon_slow, mgrVars,
                 forwarding, monVars, status_pc>>

\* ------------------------------------------------------------- IdleMonitor
\* IdleMonitor.start creating a task whatever _running says.
StartCreatesTaskAlways(running) == TRUE

\* IdleMonitor.start, lines 139-141: the call returns without creating a
\* task when _running is already True.
StartCreatesTask(running) == ~running

\* IdleMonitor.stop leaving the task where it is suspended.
TaskAfterStopNoCancel(pc) == pc

\* IdleMonitor.stop, lines 149-151: the task is cancelled, so it is resumed
\* at no await again (CancelledError is not an Exception, and neither handler
\* of the loop catches it).
TaskAfterStop(pc) == None

\* The callbacks a broadcast has invoked when the task is cancelled at pc:
\* outside _notify_state_change none; inside it the task is suspended in one
\* of the callbacks, which was invoked after those registered before it.
CancelledIn(pc, callbacks) ==
  IF pc = "notify" /\ callbacks # <<>> THEN 1..Len(callbacks) ELSE {0}

\* IdleMonitor.start: a no-op when already running, else the loop task is
\* created.
MonitorStart ==
  /\ IF StartCreatesTask(mon_running)
       THEN /\ mon_running' = TRUE
            /\ mon_pc' = "created"
            /\ mon_tasks' = Bump(mon_tasks)
            /\ UNCHANGED <<mon_config, mon_wake, activity_log>>
       ELSE UNCHANGED monVars
  /\ ev' = Upd(NoEv, [op |-> "monitor_start",
                      outcome |-> IF StartCreatesTask(mon_running)
                                  THEN "created" ELSE "noop"])
  /\ UNCHANGED <<envVars, ctlVars, last_activity, config, auxVars, proxyVars,
                 status_pc, proxy_starts>>

\* IdleMonitor.stop: the flag is cleared and the task cancelled; the
\* cancellation ends the task at the await it is suspended in.
MonitorStop ==
  /\ mon_running' = FALSE
  /\ mon_pc' = TaskAfterStop(mon_pc)
  /\ IF TaskAfterStop(mon_pc) = None
       THEN /\ mon_config' = NoConfig
            /\ mon_wake' = 0
            /\ mon_tasks' = IF mon_pc = None THEN mon_tasks ELSE mon_tasks - 1
       ELSE UNCHANGED <<mon_config, mon_wake, mon_tasks>>
  /\ \E k \in CancelledIn(mon_pc, state_callbacks) :
       ev' = Upd(NoEv, [op |-> "monitor_stop", cancelled_at |-> mon_pc,
                        notified |-> SubSeq(state_callbacks, 1, k)])
  /\ UNCHANGED <<activity_log, envVars, ctlVars, last_activity, config, auxVars, proxyVars,
                 status_pc, proxy_starts>>

\* _log_event trimming the log to its first entries.
LogEventKeepOldest(log, event) ==
  LET appended == Append(log, event)
  IN IF Len(appended) > max_log_entries
       THEN SubSeq(appended, 1, max_log_entries)
       ELSE appended

\* _log_event: the event is appended, and a log longer than _max_log_entries
\* is replaced by its last _max_log_entries entries (the slice
\* [-self._max_log_entries:]).
LogEvent(log, event) ==
  LET appended == Append(log, event)
  IN IF Len(appended) > max_log_entries
       THEN SubSeq(appended, Len(appended) - max_log_entries + 1,
                   Len(appended))
       ELSE appended

\* The ActivityEvent objects are told apart by the order of their creation:
\* the event created after the newest one in the log.
NextEvent(log) == IF log = <<>> THEN 1 ELSE log[Len(log)] + 1

\* A step of the monitor loop passes an event to _log_event (lines 71, 93,
\* 111, 122 and 131).  Nothing in the lifecycle reads the log, so the steps of
\* the loop record in ev.logged which events they log, and the log itself is
\* kept by this action.
LogEventCall ==
  /\ NextEvent(activity_log) <= MaxEvents
  /\ activity_log' = LogEvent(activity_log, NextEvent(activity_log))
  /\ ev' = Upd(NoEv, [op |-> "log_event",
                      event |-> NextEvent(activity_log)])
  /\ UNCHANGED <<envVars, ctlVars, last_activity, config, auxVars, proxyVars,
                 mon_running, mon_pc, mon_config, mon_wake, mon_tasks,
                 status_pc, proxy_starts>>

\* _monitor_loop with no handler around the cycle: an exception ends the
\* task.
CycleErrorUncaught == [pc |-> None, logged |-> <<>>]

\* _monitor_loop, lines 129-133: an exception raised inside the cycle is
\* caught, an "error" event is logged, and the loop goes on to its sleep.
CycleError == [pc |-> "sleep", logged |-> <<"error">>]

\* _monitor_loop, lines 71-88: the top of an iteration, entered when the task
\* first runs (the "system" event is logged then) or when its sleep ends.
\* The loop ends when _running is False; otherwise the configuration is read,
\* the container inspected, and the loop either sleeps (not Running, or
\* get_status raised and the handler caught it) or suspends in the queue
\* poll.  The events passed to _log_event are recorded in ev.logged.
MonitorInspect ==
  /\ \/ mon_pc = "created"
     \/ mon_pc = "sleep" /\ now >= mon_wake
  /\ IF ~mon_running THEN
       /\ mon_pc' = None
       /\ mon_config' = NoConfig
       /\ mon_wake' = 0
       /\ mon_tasks' = mon_tasks - 1
       /\ ev' = Upd(NoEv, [op |-> "monitor_exit"])
       /\ UNCHANGED state
     ELSE
       \E docker_ok \in BOOLEAN :
       \E reload_ok \in ReloadOutcomesFor(GetContainer(docker_ok)) :
         LET gs == GetStatus(GetContainer(docker_ok), reload_ok)
             cs == gs.cached
             first == IF mon_pc = "created" THEN <<"system">> ELSE <<>>
             e == Upd(NoEv, [op |-> "monitor_inspect", observed |-> gs.state,
                             raised |-> gs.raised, live |-> container])
         IN /\ state' = cs
            /\ mon_tasks' = IF gs.raised /\ CycleError.pc = None
                            THEN mon_tasks - 1 ELSE mon_tasks
            /\ IF gs.raised
                 THEN /\ mon_pc' = CycleError.pc
                      /\ mon_wake' = IF CycleError.pc = "sleep"
                                     THEN now + config.poll_interval_seconds
                                     ELSE 0
                      /\ mon_config' = NoConfig
                      /\ ev' = Upd(e, [logged |-> first \o CycleError.logged])
                 ELSE IF cs # RUNNING
                 THEN /\ mon_pc' = "sleep"
                      /\ mon_wake' = now + config.poll_interval_seconds
                      /\ mon_config' = NoConfig
                      /\ ev' = Upd(e, [logged |-> first])
                 ELSE /\ mon_pc' = "poll"
                      /\ mon_wake' = 0
                      /\ mon_config' = config
                      /\ ev' = Upd(e, [logged |-> first])
  /\ UNCHANGED <<envVars, state_changed_at, last_activity, config, auxVars, proxyVars,
                 mon_running, status_pc, proxy_starts, activity_log>>

\* The idle test with a strict comparison.
IdleTimeoutExceeded(idle_seconds, timeout_minutes) ==
  idle_seconds > timeout_minutes * 60

\* _monitor_loop, lines 100-109: the idle time has reached the timeout.
IdleTimeoutReached(idle_seconds, timeout_minutes) ==
  idle_seconds >= timeout_minutes * 60

\* The loop testing the idle time whether the poll connected or not.
MonitorDecisionIgnoreConnected(qs, idle_seconds, timeout_minutes) ==
  IF IsActive(qs.running, qs.pending) THEN "log_activity"
  ELSE IF IdleTimeoutReached(idle_seconds, timeout_minutes) THEN "stop"
  ELSE "nothing"

\* _monitor_loop, lines 90-127: what the loop does with a QueueStatus.
MonitorDecision(qs, idle_seconds, timeout_minutes) ==
  IF qs.connected THEN
    IF IsActive(qs.running, qs.pending) THEN "log_activity"
    ELSE IF IdleTimeoutReached(idle_seconds, timeout_minutes) THEN "stop"
    ELSE "nothing"
  ELSE "nothing"

\* The queue lengths a poll outcome can carry: only a successful poll
\* parses them.
JobsFor(outcome) == IF outcome = "ok" THEN 0..MaxJobs ELSE {0}

\* The loop reading the configuration anew wherever it uses it.
CycleConfigLive(snapshot, live) == live

\* _monitor_loop, line 74: the iteration holds the Config it read at its
\* start in a local variable and uses that one on lines 101 and 133, whatever
\* config_manager holds by then (update replaces the Config object, config.py
\* line 108, and never changes it in place).
CycleConfig(snapshot, live) == snapshot

\* _monitor_loop, line 133: the sleep that ends an iteration past the poll.
SleepInterval == CycleConfig(mon_config, config).poll_interval_seconds

\* The loop notifying the subscribers whatever stop_container() reported.
StopFollowUpAlwaysNotify(success) == [pc |-> "notify", logged |-> <<>>]

\* _monitor_loop, lines 119-122: after stop_container() the loop notifies
\* the subscribers when the stop succeeded, and logs an "error" event and
\* goes on to its sleep when it failed.
StopFollowUp(success) ==
  IF success THEN [pc |-> "notify", logged |-> <<>>]
  ELSE [pc |-> "sleep", logged |-> <<"error">>]

\* A proxy request running between the idle comparison and the stop call,
\* and assigning _last_activity.
ActivityAtStopTouched(la) == now

\* _monitor_loop, lines 100-117: nothing suspends between the read of the
\* idle time, its comparison and the call of stop_container(), whose body
\* runs to its end without suspending either: the activity timestamp at the
\* stop call is the one the comparison read.
ActivityAtStop(la) == la

\* _monitor_loop, lines 88-133: the queue poll returns, the idle time is
\* compared with the timeout of this iteration's configuration, and the
\* container is stopped when it is reached.  After a successful stop the loop
\* suspends in the subscribers' callbacks, otherwise in its sleep.
MonitorPollDone ==
  /\ mon_pc = "poll"
  /\ \E outcome \in PollOutcomes :
     \E running \in JobsFor(outcome), pending \in JobsFor(outcome) :
       LET qs == QueueStatus(outcome, running, pending)
           la == ActivityAfterPoll(outcome, running, pending)
           idle_seconds == SecondsSinceActivity(la)
           timeout_minutes ==
             CycleConfig(mon_config, config).idle_timeout_minutes
           d == MonitorDecision(qs, idle_seconds, timeout_minutes)
           e == Upd(Upd(NoEv, TouchEv(la)),
                    [op |-> "monitor_poll", outcome |-> outcome,
                     connected |-> qs.connected,
                     running |-> running, pending |-> pending,
                     idle_before |-> SecondsSinceActivity(last_activity),
                     timeout_minutes |-> timeout_minutes,
                     live |-> container])
       IN /\ last_activity' = IF d = "stop" THEN ActivityAtStop(la) ELSE la
          /\ IF d = "stop" THEN
               \E docker_ok \in BOOLEAN :
               \E stop_outcome \in StopOutcomesFor(GetContainer(docker_ok)) :
                 LET c == GetContainer(docker_ok)
                     res == StopContainer(c, stop_outcome, state,
                                          state_changed_at)
                 IN /\ container' = res.container
                    /\ comfy_up' = UpAfter(res.container)
                    /\ state' = res.state
                    /\ state_changed_at' = res.changed_at
                    /\ ev' = Upd(Upd(e, CallEv(c, res)),
                                 [stop_calls |-> 1,
                                  stop_actions |-> res.actions,
                                  logged |-> <<"shutdown">>
                                    \o StopFollowUp(res.success).logged])
                    /\ IF StopFollowUp(res.success).pc = "notify"
                         THEN /\ mon_pc' = "notify"
                              /\ mon_wake' = 0
                              /\ mon_config' = mon_config
                         ELSE /\ mon_pc' = "sleep"
                              /\ mon_wake' = now + SleepInterval
                              /\ mon_config' = NoConfig
             ELSE
               /\ ev' = Upd(e, [logged |-> IF d = "log_activity"
                                           THEN <<"activity">> ELSE <<>>])
               /\ mon_pc' = "sleep"
               /\ mon_wake' = now + SleepInterval
               /\ mon_config' = NoConfig
               /\ UNCHANGED <<container, comfy_up, ctlVars>>
  /\ UNCHANGED <<now, config, auxVars, proxyVars, mon_running, status_pc,
                 proxy_starts, activity_log, mon_tasks>>

\* IdleMonitor.add_state_callback: the callback is appended to the list.
\* Callbacks are told apart by the order of their registration.
AddStateCallback ==
  /\ Len(state_callbacks) < MaxCallbacks
  /\ state_callbacks' = Append(state_callbacks, Len(state_callbacks) + 1)
  /\ ev' = Upd(NoEv, [op |-> "add_state_callback"])
  /\ UNCHANGED <<envVars, ctlVars, flagVars, mgrVars, last_activity, config, last_status,
                 request, response,
                 proxyVars, monVars, status_pc, proxy_starts>>

RECURSIVE NotifyUncaughtFrom(_, _, _)
\* The broadcast from the i-th callback on with no handler around the call:
\* the exception of a failing callback leaves the loop over the callbacks.
NotifyUncaughtFrom(callbacks, failing, i) ==
  IF i > Len(callbacks) THEN [invoked |-> <<>>, raised |-> FALSE]
  ELSE IF callbacks[i] \in failing
         THEN [invoked |-> <<callbacks[i]>>, raised |-> TRUE]
         ELSE LET rest == NotifyUncaughtFrom(callbacks, failing, i + 1)
              IN [invoked |-> <<callbacks[i]>> \o rest.invoked,
                  raised |-> rest.raised]

\* _notify_state_change with no try around the call of a callback.
NotifyStateChangeUncaught(callbacks, failing) ==
  NotifyUncaughtFrom(callbacks, failing, 1)

RECURSIVE NotifyFrom(_, _, _)
\* _notify_state_change, lines 51-55, from the i-th callback on: the callback
\* is awaited inside try / except Exception, so whether it is one of the
\* failing ones or not the loop goes on to the next.
NotifyFrom(callbacks, failing, i) ==
  IF i > Len(callbacks) THEN [invoked |-> <<>>, raised |-> FALSE]
  ELSE LET rest == NotifyFrom(callbacks, failing, i + 1)
       IN [invoked |-> <<callbacks[i]>> \o rest.invoked,
           raised |-> rest.raised]

\* _notify_state_change: the callbacks invoked, in the order of the calls,
\* and whether an exception leaves the broadcast, when the callbacks in
\* failing raise.
NotifyStateChange(callbacks, failing) == NotifyFrom(callbacks, failing, 1)

\* _notify_state_change has returned, or raised into the handler of the
\* cycle; either way the loop sleeps.
MonitorNotifyDone ==
  /\ mon_pc = "notify"
  /\ \E failing \in SUBSET {state_callbacks[i] : i \in DOMAIN state_callbacks} :
       LET r == NotifyStateChange(state_callbacks, failing)
       IN /\ mon_pc' = IF r.raised THEN CycleError.pc ELSE "sleep"
          /\ ev' = Upd(NoEv, [op |-> "monitor_notified",
                              notified |-> r.invoked, failed |-> failing,
                              raised |-> r.raised,
                              logged |-> IF r.raised THEN CycleError.logged
                                         ELSE <<>>])
  /\ mon_wake' = now + SleepInterval
  /\ mon_config' = NoConfig
  /\ UNCHANGED <<envVars, ctlVars, last_activity, config, auxVars, proxyVars,
                 mon_running, status_pc, proxy_starts, activity_log,
                 mon_tasks>>

\* ---------------------------------------------------------- routes/api.py
\* POST /api/start
ApiStart ==
  /\ \E docker_ok \in BOOLEAN :
       \E outcome \in StartOutcomesFor(GetContainer(docker_ok)) :
       LET c == GetContainer(docker_ok)
           res == StartContainer(c, outcome, state, state_changed_at)
       IN /\ container' = res.container
          /\ comfy_up' = UpAfter(res.container)
          /\ state' = res.state
          /\ state_changed_at' = res.changed_at
          /\ last_activity' = IF res.success THEN UpdateActivity
                              ELSE last_activity
          /\ ev' = Upd(Upd(NoEv, CallEv(c, res)),
                       [op |-> "api_start", live |-> container,
                        flag_before |-> starting,
                        touched |-> IF res.success
                                    THEN TouchEv(UpdateActivity).touched
                                    ELSE "-",
                        resp |-> IF res.raised THEN "unhandled_exception"
                                 ELSE IF res.success THEN "ok_200"
                                 ELSE "error_500",
                        start_raised |-> res.raised,
                        start_calls |-> 1, start_actions |-> res.actions])
  /\ UNCHANGED <<now, config, auxVars, proxyVars, monVars, status_pc, proxy_starts>>

\* POST /api/stop
ApiStop ==
  /\ \E docker_ok \in BOOLEAN :
       \E outcome \in StopOutcomesFor(GetContainer(docker_ok)) :
       LET c == GetContainer(docker_ok)
           res == StopContainer(c, outcome, state, state_changed_at)
       IN /\ container' = res.container
          /\ comfy_up' = UpAfter(res.container)
          /\ state' = res.state
          /\ state_changed_at' = res.changed_at
          /\ ev' = Upd(Upd(NoEv, CallEv(c, res)),
                       [op |-> "api_stop", live |-> container,
                        flag_before |-> starting,
                        resp |-> IF res.success THEN "ok_200" ELSE "error_500",
                        stop_calls |-> 1, stop_actions |-> res.actions])
  /\ UNCHANGED <<now, last_activity, config, auxVars, proxyVars, monVars, status_pc,
                 proxy_starts>>

\* POST /api/reset-idle
ApiResetIdle ==
  /\ last_activity' = UpdateActivity
  /\ ev' = Upd(Upd(NoEv, TouchEv(UpdateActivity)),
               [op |-> "api_reset_idle"])
  /\ UNCHANGED <<envVars, ctlVars, config, auxVars, proxyVars, monVars, status_pc,
                 proxy_starts>>

\* PUT /api/config with auto_start_enabled alone
ApiConfigAutoStart ==
  /\ config' = [config EXCEPT !.auto_start_enabled = ~@]
  /\ ev' = Upd(NoEv, [op |-> "api_config"])
  /\ UNCHANGED <<envVars, ctlVars, last_activity, auxVars, proxyVars,
                 monVars, status_pc, proxy_starts>>

\* PUT /api/config with idle_timeout_minutes alone
ApiConfigIdleTimeout ==
  /\ \E m \in IdleTimeouts \ {config.idle_timeout_minutes} :
       config' = [config EXCEPT !.idle_timeout_minutes = m]
  /\ ev' = Upd(NoEv, [op |-> "api_config"])
  /\ UNCHANGED <<envVars, ctlVars, last_activity, auxVars, proxyVars,
                 monVars, status_pc, proxy_starts>>

\* PUT /api/config with poll_interval_seconds alone
ApiConfigPollInterval ==
  /\ \E p \in PollIntervals \ {config.poll_interval_seconds} :
       config' = [config EXCEPT !.poll_interval_seconds = p]
  /\ ev' = Upd(NoEv, [op |-> "api_config"])
  /\ UNCHANGED <<envVars, ctlVars, last_activity, auxVars, proxyVars,
                 monVars, status_pc, proxy_starts>>

\* GET /api/status, up to the queue poll: the container is inspected.  When
\* get_status raises, the exception leaves the endpoint and the request ends.
ApiStatusInspect ==
  /\ status_pc = "idle"
  /\ \E docker_ok \in BOOLEAN :
     \E reload_ok \in ReloadOutcomesFor(GetContainer(docker_ok)) :
       LET gs == GetStatus(GetContainer(docker_ok), reload_ok)
       IN /\ state' = gs.cached
          /\ status_pc' = IF gs.raised THEN "idle" ELSE "poll"
          /\ ev' = Upd(NoEv, [op |-> "status_inspect", observed |-> gs.state,
                              raised |-> gs.raised,
                              resp |-> IF gs.raised THEN "unhandled_exception"
                                       ELSE "-",
                              live |-> container])
  /\ UNCHANGED <<envVars, state_changed_at, last_activity, config, auxVars, proxyVars,
                 monVars, proxy_starts>>

\* GET /api/status: the queue poll returns and the response is built.
ApiStatusPollDone ==
  /\ status_pc = "poll"
  /\ status_pc' = "idle"
  /\ \E outcome \in PollOutcomes :
     \E running \in JobsFor(outcome), pending \in JobsFor(outcome) :
       /\ last_activity' = ActivityAfterPoll(outcome, running, pending)
       /\ ev' = Upd(Upd(NoEv, TouchEv(ActivityAfterPoll(outcome, running,
                                                         pending))),
                    [op |-> "status_poll", outcome |-> outcome,
                     running |-> running, pending |-> pending])
  /\ UNCHANGED <<envVars, ctlVars, config, auxVars, proxyVars, monVars, proxy_starts>>

\* get_queue_status, lines 62-105, by itself.  Nothing reads _last_status
\* (the last_status property has no caller), so the steps of the monitor and
\* of GET /api/status record the poll's outcome in ev and the snapshot is
\* kept by this action.
GetQueueStatus ==
  /\ \E outcome \in PollOutcomes :
     \E running \in JobsFor(outcome), pending \in JobsFor(outcome) :
       LET qs == QueueStatus(outcome, running, pending)
           la == ActivityAfterPoll(outcome, running, pending)
       IN /\ last_activity' = la
          /\ last_status' = StatusAfterPoll(outcome, running, pending)
          /\ ev' = Upd(Upd(NoEv, TouchEv(la)),
                       [op |-> "queue_poll", outcome |-> outcome,
                        connected |-> qs.connected,
                        running |-> running, pending |-> pending])
  /\ UNCHANGED <<envVars, ctlVars, flagVars, mgrVars, config, state_callbacks, request, response,
                 proxyVars, monVars, status_pc, proxy_starts>>

\* ---------------------------------------------------- main.py, routing
\* A request path is the sequence of its characters after the leading "/",
\* as the path parameter of the catch-all route holds it.
\* proxy_all, line 132: the prefixes tested by path.startswith.
ReservedPrefixes ==
  {<<"m", "a", "n", "a", "g", "e", "r">>,
   <<"a", "p", "i">>,
   <<"w", "s">>,
   <<"h", "e", "a", "l", "t", "h">>,
   <<"d", "o", "c", "s">>,
   <<"o", "p", "e", "n", "a", "p", "i", ".", "j", "s", "o", "n">>,
   <<"r", "e", "d", "o", "c">>}

\* The request paths followed (without the leading "/"): the root, paths of
\* the backend, the management endpoints, and paths that begin like one.
RequestPaths ==
  {<<>>,
   <<"v", "i", "e", "w">>,
   <<"p", "r", "o", "m", "p", "t">>,
   <<"a", "p", "i", "/", "s", "t", "a", "r", "t">>,
   <<"a", "p", "i", "/", "s", "t", "o", "p">>,
   <<"a", "p", "i", "/", "r", "e", "s", "e", "t", "-", "i", "d", "l", "e">>,
   <<"a", "p", "i", "/", "s", "t", "a", "t", "u", "s">>,
   <<"a", "p", "i", "/", "p", "r", "o", "m", "p", "t">>,
   <<"a", "p", "i", "a", "r", "y">>,
   <<"h", "e", "a", "l", "t", "h">>,
   <<"h", "e", "a", "l", "t", "h", "z">>,
   <<"m", "a", "n", "a", "g", "e", "r">>,
   <<"w", "s">>,
   <<"d", "o", "c", "s">>}

\* The request methods followed: those the catch-all route lists, and one
\* that it does not.
api_route_methods ==
  {"GET", "POST", "PUT", "DELETE", "PATCH", "OPTIONS", "HEAD"}
RequestMethods == api_route_methods \cup {"TRACE"}

\* str.startswith
StartsWith(path, prefix) ==
  /\ Len(path) >= Len(prefix)
  /\ SubSeq(path, 1, Len(prefix)) = prefix

\* The routes registered before the catch-all: the api router (main.py line
\* 80, routes/api.py), /health, /manager and the documentation page.
RegisteredRoutes ==
  {[method |-> "GET", handler |-> "api_status",
    path |-> <<"a", "p", "i", "/", "s", "t", "a", "t", "u", "s">>],
   [method |-> "POST", handler |-> "api_start",
    path |-> <<"a", "p", "i", "/", "s", "t", "a", "r", "t">>],
   [method |-> "POST", handler |-> "api_stop",
    path |-> <<"a", "p", "i", "/", "s", "t", "o", "p">>],
   [method |-> "POST", handler |-> "api_reset_idle",
    path |-> <<"a", "p", "i", "/", "r", "e", "s", "e", "t", "-", "i", "d", "l", "e">>],
   [method |-> "GET", handler |-> "health_check",
    path |-> <<"h", "e", "a", "l", "t", "h">>],
   [method |-> "GET", handler |-> "serve_manager",
    path |-> <<"m", "a", "n", "a", "g", "e", "r">>],
   [method |-> "GET", handler |-> "docs",
    path |-> <<"d", "o", "c", "s">>]}

\* A route registered for GET also answers HEAD.
RouteMethods(method) == IF method = "GET" THEN {"GET", "HEAD"} ELSE {method}

\* proxy_all, lines 132-134: what the catch-all route does with a path.
ProxyAll(path) ==
  IF \E prefix \in ReservedPrefixes : StartsWith(path, prefix)
    THEN "null_200"
    ELSE "gateway"

\* The handler that answers a request: the first registered route whose path
\* and method match, else the catch-all route for the methods it lists, else
\* the framework's 405.
Route(method, path) ==
  LET hits == {r \in RegisteredRoutes :
                 r.path = path /\ method \in RouteMethods(r.method)}
  IN IF hits # {} THEN (CHOOSE r \in hits : TRUE).handler
     ELSE IF method \in api_route_methods THEN ProxyAll(path)
     ELSE "method_not_allowed"

\* The handlers that assign or may assign _last_activity: handle_request
\* (proxy.py line 131), POST /api/start (api.py line 71), POST /api/reset-idle
\* (line 164) and the queue poll of GET /api/status (line 40).
HandlerTouches(handler) ==
  handler \in {"gateway", "api_start", "api_reset_idle", "api_status"}

\* The handlers that call or may call start_container(): handle_request and
\* POST /api/start (api.py line 65).
HandlerStarts(handler) == handler \in {"gateway", "api_start"}

\* An HTTP request arrives and the application routes it.
RouteRequest ==
  /\ \E method \in RequestMethods, path \in RequestPaths :
       request' = [method |-> method, path |-> path,
                   handler |-> Route(method, path)]
  /\ ev' = Upd(NoEv, [op |-> "route"])
  /\ UNCHANGED <<envVars, ctlVars, flagVars, mgrVars, last_activity, config, last_status,
                 state_callbacks,
                 response, proxyVars, monVars, status_pc, proxy_starts>>

\* ------------------------------------------- proxy.py, _proxy_request
\* A response body is a sequence of pieces, each a run of bytes: the two
\* spellings of an opening head tag without its closing bracket, the closing
\* bracket, one byte of other text, and one byte that is not valid UTF-8.
BodyPieces == {"<head", "<HEAD", ">", "x", "0xFF"}

\* _inject_base_tag, line 123: the tag it inserts, '\n<base href="/comfyui/">\n'.
BaseTag == "<base>"

\* len() of a piece in bytes.
PieceLen(p) ==
  CASE p \in {"<head", "<HEAD"} -> 5
    [] p = BaseTag -> 25
    [] OTHER -> 1

RECURSIVE ContentLength(_)
\* len(content), in bytes.
ContentLength(content) ==
  IF content = <<>> THEN 0
  ELSE PieceLen(Head(content)) + ContentLength(Tail(content))

\* str.lower()
Lower(content) ==
  [i \in DOMAIN content |->
     IF content[i] = "<HEAD" THEN "<head" ELSE content[i]]

\* str.find(piece, from): the first position at or after from, 0 for the -1
\* of a failed search.
Find(content, piece, from) ==
  LET hits == {i \in from..Len(content) : content[i] = piece}
  IN IF hits = {} THEN 0 ELSE CHOOSE i \in hits : \A j \in hits : i <= j

\* _inject_base_tag, lines 110-124.
InjectBaseTag(content) ==
  LET head_pos == Find(Lower(content), "<head", 1)
  IN IF head_pos = 0 THEN content
     ELSE LET head_end == Find(content, ">", head_pos)
          IN IF head_end = 0 THEN content
             ELSE SubSeq(content, 1, head_end) \o <<BaseTag>>
                    \o SubSeq(content, head_end + 1, Len(content))

\* content.decode('utf-8') does not raise UnicodeDecodeError.
Decodes(content) == \A i \in DOMAIN content : content[i] # "0xFF"

\* The content types of the backend's responses, and line 250: whether
\* 'text/html' occurs in the lowercased content type.
ContentTypes == {"text/html; charset=utf-8", "image/png"}
IsHtml(content_type) == content_type = "text/html; charset=utf-8"

hop_by_hop ==
  {"connection", "keep-alive", "transfer-encoding", "te", "trailers",
   "upgrade"}

\* _proxy_request, lines 247-257: the content of the relayed response.
RelayContent(content_type, content) ==
  IF IsHtml(content_type) /\ Decodes(content)
    THEN InjectBaseTag(content)
    ELSE content

\* _proxy_request, lines 260-267: the headers of the relayed response, for
\* the content it relays.
RelayHeaders(headers, content) ==
  [k \in DOMAIN headers \ hop_by_hop |->
     IF k = "content-length" THEN ContentLength(content) ELSE headers[k]]

\* _proxy_request, lines 244-273: the Response built from the backend's.
RelayResponse(r) ==
  LET content == RelayContent(r.headers["content-type"], r.content)
  IN [status_code |-> r.status_code,
      content |-> content,
      headers |-> RelayHeaders(r.headers, content)]

RECURSIVE Bodies(_)
\* The bodies of at most n pieces.
Bodies(n) ==
  IF n = 0 THEN {<<>>}
  ELSE Bodies(n - 1)
         \cup {Append(b, p) : b \in {c \in Bodies(n - 1) : Len(c) = n - 1},
                              p \in BodyPieces}

\* The headers of a backend response: its content type, the length of its
\* body, and any of a hop-by-hop header and a header of the application.
BackendHeaders(content_type, content, extra) ==
  [k \in {"content-type", "content-length"} \cup extra |->
     CASE k = "content-type" -> content_type
       [] k = "content-length" -> ContentLength(content)
       [] k = "connection" -> "keep-alive"
       [] OTHER -> "v"]

BackendResponses ==
  {[status_code |-> sc, content |-> b,
    headers |-> BackendHeaders(ct, b, extra)] :
     sc \in {200, 404}, b \in Bodies(MaxBody), ct \in ContentTypes,
     extra \in SUBSET {"connection", "x-custom"}}

\* _proxy_request, lines 234-241: the forward of the request that is
\* followed is sent, and the task suspends until the backend has answered.
BackendResponds ==
  /\ response.backend = NoResponse
  /\ \E r \in BackendResponses :
       response' = [backend |-> r, relayed |-> NoResponse]
  /\ ev' = Upd(NoEv, [op |-> "backend_responds"])
  /\ UNCHANGED <<envVars, ctlVars, flagVars, mgrVars, last_activity, config, last_status,
                 state_callbacks,
                 request, proxyVars, monVars, status_pc, proxy_starts>>

\* _proxy_request, lines 244-273: client.request has returned the backend's
\* response and the Response for the caller is built from it.
ProxyRelay ==
  /\ response.backend # NoResponse
  /\ response.relayed = NoResponse
  /\ response' = [response EXCEPT !.relayed = RelayResponse(response.backend)]
  /\ ev' = Upd(NoEv, [op |-> "proxy_relay"])
  /\ UNCHANGED <<envVars, ctlVars, flagVars, mgrVars, last_activity, config, last_status,
                 state_callbacks,
                 request, proxyVars, monVars, status_pc, proxy_starts>>

\* ------------------------------ comfyui_manager.py, app.py (thread-based)
\* The Flask application serves every request in a thread of its own; the
\* idle checker is one more thread.  Each step below is one access of a
\* thread to what the threads share.
Requests == 1..MaxThreads
Checkers == (MaxThreads + 1)..(MaxThreads + MaxCheckers)
Procs == 1..MaxProcs

\* IDLE_TIMEOUT_SECONDS and IDLE_CHECK_INTERVAL come from the environment
\* (app.py lines 31-32); here the timeout is one tick of the clock and the
\* checker sleeps one tick.
idle_timeout == TickSeconds
check_interval == TickSeconds

Alive(ps) == {p \in Procs : ps[p] = "alive"}

\* ComfyUIManager.is_running
is_running == process # 0 /\ procs[process] = "alive"

\* ComfyUIManager.is_responsive: the port answers.
is_responsive == port_up

\* The port answers only while a spawned process lives.
PortAfter(ps) == port_up /\ Alive(ps) # {}

\* The threads inside start_comfyui between the set of is_starting on line 82
\* and its clearing on line 121, the calls they make included.
InStart(t) ==
  \/ threads[t].pc \in {"start_popen", "start_wait", "start_record",
                        "start_clear", "start_thread", "start_finally"}
  \/ threads[t].stop_from = "start"

\* The thread t goes on with the fields u changed.
Goes(t, u) == threads' = [threads EXCEPT ![t] = Upd(threads[t], u)]

\* What a thread does when start_comfyui returns ok to its caller:
\* manager_start answers; comfyui_proxy answers 503 or goes on to the
\* responsiveness test.
AfterStart(t, ok) ==
  IF threads[t].caller = "proxy" /\ ok
    THEN Upd(NoThread, [pc |-> "proxy_is_responsive"])
    ELSE NoThread

\* What a thread does when stop_comfyui returns: manager_stop answers; the
\* timed-out start_comfyui returns False through its finally; the idle
\* checker breaks out of its loop and ends.
AfterStop(t) ==
  IF threads[t].stop_from = "start"
    THEN Upd(threads[t], [pc |-> "start_finally", stop_from |-> "-",
                          ok |-> FALSE])
    ELSE NoThread

\* start_comfyui waits at most this long for the port (line 97).
max_wait == 120

\* POST /manager/start (app.py lines 401-405): a thread takes the request
\* and calls start_comfyui.
manager_start(t) ==
  /\ threads[t].pc = "none"
  /\ Goes(t, [pc |-> "start_lock", caller |-> "api"])
  /\ mgr_ev' = NoMgrEv
  /\ UNCHANGED <<process, is_starting, lock, stop_idle_checker,
                 manager_last_activity, procs, port_up>>

\* POST /manager/stop (app.py lines 408-412): a thread takes the request and
\* calls stop_comfyui.
manager_stop(t) ==
  /\ threads[t].pc = "none"
  /\ Goes(t, [pc |-> "stop_set", stop_from |-> "api"])
  /\ mgr_ev' = NoMgrEv
  /\ UNCHANGED <<process, is_starting, lock, stop_idle_checker,
                 manager_last_activity, procs, port_up>>

\* comfyui_proxy / catch_all, lines 436-456 and 512-532.
\* Line 436: a thread takes the request; when the process is not running,
\* start_comfyui is called.
ProxyIsRunning(t) ==
  /\ threads[t].pc = "none"
  /\ Goes(t, [pc |-> IF is_running THEN "proxy_is_responsive"
                     ELSE "start_lock",
              caller |-> "proxy"])
  /\ mgr_ev' = NoMgrEv
  /\ UNCHANGED <<process, is_starting, lock, stop_idle_checker,
                 manager_last_activity, procs, port_up>>

\* Lines 445-453: the port is polled for 30 s; 503 when it never answers.
ProxyIsResponsive(t) ==
  /\ threads[t].pc = "proxy_is_responsive"
  /\ threads' = [threads EXCEPT ![t] =
                   IF is_responsive THEN Upd(NoThread, [pc |-> "proxy_record"])
                   ELSE NoThread]
  /\ mgr_ev' = NoMgrEv
  /\ UNCHANGED <<process, is_starting, lock, stop_idle_checker,
                 manager_last_activity, procs, port_up>>

\* Line 455: record_activity().
ProxyRecord(t) ==
  /\ threads[t].pc = "proxy_record"
  /\ manager_last_activity' = now
  /\ Goes(t, [pc |-> "proxy_forward"])
  /\ mgr_ev' = NoMgrEv
  /\ UNCHANGED <<process, is_starting, lock, stop_idle_checker, procs,
                 port_up>>

\* Line 456, proxy_request: the request is sent to the port, where a live
\* process takes it; 502 when nothing listens.
ProxyForward(t) ==
  /\ threads[t].pc = "proxy_forward"
  /\ IF port_up
       THEN \E p \in Alive(procs) :
              Goes(t, [pc |-> "proxy_pending", target |-> p])
       ELSE threads' = [threads EXCEPT ![t] = NoThread]
  /\ mgr_ev' = NoMgrEv
  /\ UNCHANGED <<process, is_starting, lock, stop_idle_checker,
                 manager_last_activity, procs, port_up>>

\* The backend's response arrives, or the connection breaks.
ProxyDone(t) ==
  /\ threads[t].pc = "proxy_pending"
  /\ threads' = [threads EXCEPT ![t] = NoThread]
  /\ mgr_ev' = NoMgrEv
  /\ UNCHANGED <<process, is_starting, lock, stop_idle_checker,
                 manager_last_activity, procs, port_up>>

comfyui_proxy(t) ==
  \/ ProxyIsRunning(t)
  \/ ProxyIsResponsive(t)
  \/ ProxyRecord(t)
  \/ ProxyForward(t)
  \/ ProxyDone(t)

\* start_comfyui, line 73: the lock is taken.
StartLock(t) ==
  /\ threads[t].pc = "start_lock"
  /\ lock = 0
  /\ lock' = t
  /\ Goes(t, [pc |-> "start_is_running"])
  /\ mgr_ev' = NoMgrEv
  /\ UNCHANGED <<process, is_starting, stop_idle_checker,
                 manager_last_activity, procs, port_up>>

\* Lines 74-76: a running process ends the call, the lock released; the
\* finally of line 120 is not passed.
StartIsRunning(t) ==
  /\ threads[t].pc = "start_is_running"
  /\ IF is_running
       THEN /\ lock' = 0
            /\ threads' = [threads EXCEPT ![t] = AfterStart(t, TRUE)]
       ELSE /\ lock' = lock
            /\ Goes(t, [pc |-> "start_is_starting"])
  /\ mgr_ev' = NoMgrEv
  /\ UNCHANGED <<process, is_starting, stop_idle_checker,
                 manager_last_activity, procs, port_up>>

\* Lines 78-82: a start in progress ends the call; otherwise this call is
\* the start in progress.
Starts(flag) == ~flag

\* Lines 78-82, and the lock released at the end of the with block.
StartIsStarting(t) ==
  /\ threads[t].pc = "start_is_starting"
  /\ lock' = 0
  /\ IF Starts(is_starting)
       THEN /\ is_starting' = TRUE
            /\ Goes(t, [pc |-> "start_popen"])
       ELSE /\ is_starting' = is_starting
            /\ threads' = [threads EXCEPT ![t] = AfterStart(t, TRUE)]
  /\ mgr_ev' = NoMgrEv
  /\ UNCHANGED <<process, stop_idle_checker, manager_last_activity, procs,
                 port_up>>

\* Lines 88-98: the subprocess is spawned and assigned to self.process,
\* outside the lock.
StartPopen(t) ==
  /\ threads[t].pc = "start_popen"
  /\ \E p \in Procs :
       /\ procs[p] = "unborn"
       /\ \A q \in Procs : q < p => procs[q] # "unborn"
       /\ procs' = [procs EXCEPT ![p] = "alive"]
       /\ process' = p
       /\ mgr_ev' = [NoMgrEv EXCEPT
                       !.op = "spawn", !.by = t, !.proc = p,
                       !.others_alive = (Alive(procs) # {}),
                       !.starting_elsewhere =
                         (\E u \in Requests \ {t} : InStart(u))]
  /\ Goes(t, [pc |-> "start_wait", t0 |-> now])
  /\ UNCHANGED <<is_starting, lock, stop_idle_checker, manager_last_activity,
                 port_up>>

\* Lines 99-115, one turn of the loop: the port answers; or self.process is
\* None (AttributeError, caught on line 117) or has exited; or the wait has
\* lasted max_wait and stop_comfyui is called.  Otherwise the thread sleeps.
StartWait(t) ==
  /\ threads[t].pc = "start_wait"
  /\ IF now - threads[t].t0 < max_wait THEN
       IF is_responsive THEN Goes(t, [pc |-> "start_record", t0 |-> 0])
       ELSE /\ IF process = 0 THEN TRUE ELSE procs[process] = "dead"
            /\ Goes(t, [pc |-> "start_finally", ok |-> FALSE, t0 |-> 0])
     ELSE Goes(t, [pc |-> "stop_set", stop_from |-> "start", t0 |-> 0])
  /\ mgr_ev' = NoMgrEv
  /\ UNCHANGED <<process, is_starting, lock, stop_idle_checker,
                 manager_last_activity, procs, port_up>>

\* Line 102: record_activity().
StartRecord(t) ==
  /\ threads[t].pc = "start_record"
  /\ manager_last_activity' = now
  /\ Goes(t, [pc |-> "start_clear"])
  /\ mgr_ev' = NoMgrEv
  /\ UNCHANGED <<process, is_starting, lock, stop_idle_checker, procs,
                 port_up>>

\* _start_idle_checker, line 160: the stop event is cleared.
StartClear(t) ==
  /\ threads[t].pc = "start_clear"
  /\ stop_idle_checker' = FALSE
  /\ Goes(t, [pc |-> "start_thread"])
  /\ mgr_ev' = NoMgrEv
  /\ UNCHANGED <<process, is_starting, lock, manager_last_activity, procs,
                 port_up>>

\* _start_idle_checker, lines 161-165: a new checker thread is started, and
\* start_comfyui returns True.
StartThread(t) ==
  /\ threads[t].pc = "start_thread"
  /\ \E c \in Checkers :
       /\ threads[c].pc = "none"
       /\ \A d \in Checkers : d < c => threads[d].pc # "none"
       /\ threads' = [threads EXCEPT
                        ![c] = Upd(NoThread, [pc |-> "loop_test"]),
                        ![t] = Upd(threads[t], [pc |-> "start_finally",
                                                ok |-> TRUE])]
  /\ mgr_ev' = NoMgrEv
  /\ UNCHANGED <<process, is_starting, lock, stop_idle_checker,
                 manager_last_activity, procs, port_up>>

\* Lines 120-121: every return after line 82 passes the finally.
StartFinally(t) ==
  /\ threads[t].pc = "start_finally"
  /\ is_starting' = FALSE
  /\ threads' = [threads EXCEPT ![t] = AfterStart(t, threads[t].ok)]
  /\ mgr_ev' = NoMgrEv
  /\ UNCHANGED <<process, lock, stop_idle_checker, manager_last_activity,
                 procs, port_up>>

start_comfyui(t) ==
  \/ StartLock(t)
  \/ StartIsRunning(t)
  \/ StartIsStarting(t)
  \/ StartPopen(t)
  \/ StartWait(t)
  \/ StartRecord(t)
  \/ StartClear(t)
  \/ StartThread(t)
  \/ StartFinally(t)

\* stop_comfyui, line 125: the stop event is set, before the lock is asked
\* for.
StopSet(t) ==
  /\ threads[t].pc = "stop_set"
  /\ stop_idle_checker' = TRUE
  /\ Goes(t, [pc |-> "stop_lock"])
  /\ mgr_ev' = NoMgrEv
  /\ UNCHANGED <<process, is_starting, lock, manager_last_activity, procs,
                 port_up>>

\* Line 127: the lock is taken.
StopLock(t) ==
  /\ threads[t].pc = "stop_lock"
  /\ lock = 0
  /\ lock' = t
  /\ Goes(t, [pc |-> "stop_check"])
  /\ mgr_ev' = NoMgrEv
  /\ UNCHANGED <<process, is_starting, stop_idle_checker,
                 manager_last_activity, procs, port_up>>

\* Lines 128-130: nothing to stop.
StopCheck(t) ==
  /\ threads[t].pc = "stop_check"
  /\ IF process = 0
       THEN /\ lock' = 0
            /\ threads' = [threads EXCEPT ![t] = AfterStop(t)]
       ELSE /\ lock' = lock
            /\ Goes(t, [pc |-> "stop_term"])
  /\ mgr_ev' = NoMgrEv
  /\ UNCHANGED <<process, is_starting, stop_idle_checker,
                 manager_last_activity, procs, port_up>>

\* The request threads whose forwarded request the process p is serving.
InFlight(p) ==
  \E u \in Requests :
    threads[u].pc = "proxy_pending" /\ threads[u].target = p

\* Line 137: SIGTERM to the process group of self.process, as read now.  A
\* process that has exited and was reaped has no group any more: os.getpgid
\* raises, and the call goes to its finally; one not yet reaped is signalled
\* to no effect and waited for.
StopTerm(t) ==
  /\ threads[t].pc = "stop_term"
  /\ IF procs[process] = "alive"
       THEN /\ procs' = [procs EXCEPT ![process] = "dead"]
            /\ port_up' = PortAfter(procs')
            /\ Goes(t, [pc |-> "stop_wait"])
            /\ mgr_ev' = [NoMgrEv EXCEPT
                            !.op = "kill", !.by = t, !.proc = process,
                            !.idle = now - manager_last_activity,
                            !.in_flight = InFlight(process)]
       ELSE /\ \E pc \in {"stop_wait", "stop_clear"} : Goes(t, [pc |-> pc])
            /\ mgr_ev' = NoMgrEv
            /\ UNCHANGED <<procs, port_up>>
  /\ UNCHANGED <<process, is_starting, lock, stop_idle_checker,
                 manager_last_activity>>

\* Lines 142-150: self.process, read again, is waited for, and killed when
\* it has not exited after 10 s.
StopWait(t) ==
  /\ threads[t].pc = "stop_wait"
  /\ procs' = [procs EXCEPT ![process] = "dead"]
  /\ port_up' = PortAfter(procs')
  /\ Goes(t, [pc |-> "stop_clear"])
  /\ mgr_ev' = IF procs[process] = "alive"
                 THEN [NoMgrEv EXCEPT
                         !.op = "kill", !.by = t, !.proc = process,
                         !.idle = now - manager_last_activity,
                         !.in_flight = InFlight(process)]
                 ELSE NoMgrEv
  /\ UNCHANGED <<process, is_starting, lock, stop_idle_checker,
                 manager_last_activity>>

\* Lines 155-156 and the end of the with block.
StopClear(t) ==
  /\ threads[t].pc = "stop_clear"
  /\ process' = 0
  /\ lock' = 0
  /\ threads' = [threads EXCEPT ![t] = AfterStop(t)]
  /\ mgr_ev' = NoMgrEv
  /\ UNCHANGED <<is_starting, stop_idle_checker, manager_last_activity, procs,
                 port_up>>

stop_comfyui(t) ==
  \/ StopSet(t)
  \/ StopLock(t)
  \/ StopCheck(t)
  \/ StopTerm(t)
  \/ StopWait(t)
  \/ StopClear(t)

\* _idle_checker_loop, lines 171-172: the loop test, then the sleep.
LoopTest(c) ==
  /\ threads[c].pc = "loop_test"
  /\ threads' = [threads EXCEPT ![c] =
                   IF stop_idle_checker THEN NoThread
                   ELSE Upd(NoThread, [pc |-> "sleep",
                                       t0 |-> now + check_interval])]
  /\ mgr_ev' = NoMgrEv
  /\ UNCHANGED <<process, is_starting, lock, stop_idle_checker,
                 manager_last_activity, procs, port_up>>

\* Lines 172-175: the sleep ends and the stop event is looked at.
LoopWake(c) ==
  /\ threads[c].pc = "sleep"
  /\ now >= threads[c].t0
  /\ threads' = [threads EXCEPT ![c] =
                   IF stop_idle_checker THEN NoThread
                   ELSE Upd(NoThread, [pc |-> "read_idle"])]
  /\ mgr_ev' = NoMgrEv
  /\ UNCHANGED <<process, is_starting, lock, stop_idle_checker,
                 manager_last_activity, procs, port_up>>

\* Lines 177-183: the idle time is read and compared; when it has reached
\* the timeout stop_comfyui is called, after which the loop is left.
LoopCheck(c) ==
  /\ threads[c].pc = "read_idle"
  /\ LET idle_seconds == now - manager_last_activity
     IN threads' = [threads EXCEPT ![c] =
                      IF idle_seconds >= idle_timeout
                        THEN Upd(NoThread, [pc |-> "stop_set",
                                            stop_from |-> "checker",
                                            idle |-> idle_seconds])
                        ELSE Upd(NoThread, [pc |-> "loop_test"])]
  /\ mgr_ev' = NoMgrEv
  /\ UNCHANGED <<process, is_starting, lock, stop_idle_checker,
                 manager_last_activity, procs, port_up>>

idle_checker_loop(c) ==
  \/ LoopTest(c)
  \/ LoopWake(c)
  \/ LoopCheck(c)

\* The ComfyUI process exits by itself.
ProcExits ==
  /\ \E p \in Alive(procs) :
       /\ procs' = [procs EXCEPT ![p] = "dead"]
       /\ port_up' = PortAfter(procs')
  /\ mgr_ev' = NoMgrEv
  /\ UNCHANGED <<process, is_starting, lock, stop_idle_checker,
                 manager_last_activity, threads>>

\* ComfyUI has loaded and answers on its port.
PortUp ==
  /\ ~port_up
  /\ Alive(procs) # {}
  /\ port_up' = TRUE
  /\ mgr_ev' = NoMgrEv
  /\ UNCHANGED <<process, is_starting, lock, stop_idle_checker,
                 manager_last_activity, procs, threads>>

\* The rest of the model, which the thread-based manager shares nothing
\* with but the clock.
gatewayVars == <<envVars, ctlVars, last_activity, config, sideVars, flagVars,
                 proxyVars, monVars, status_pc, proxy_starts, ev>>

ManagerStep ==
  \/ \E t \in Requests : manager_start(t)
  \/ \E t \in Requests : manager_stop(t)
  \/ \E t \in Requests : comfyui_proxy(t)
  \/ \E t \in Requests : start_comfyui(t)
  \/ \E t \in Requests \cup Checkers : stop_comfyui(t)
  \/ \E c \in Checkers : idle_checker_loop(c)
  \/ ProcExits
  \/ PortUp

\* The thread-based manager is a deployment of its own: no container.
ManagerInit == Init /\ container = Absent /\ config.auto_start_enabled

\* Two request threads of the Flask server beside each other, with the
\* process free to exit; the clock stands still, so no checker wakes.
SpawnStep ==
  \/ \E t \in Requests : manager_start(t)
  \/ \E t \in Requests : manager_stop(t)
  \/ \E t \in Requests : comfyui_proxy(t)
  \/ \E t \in Requests : start_comfyui(t)
  \/ \E t \in Requests : stop_comfyui(t)
  \/ ProcExits
  \/ PortUp

SpawnNext == SpawnStep /\ UNCHANGED gatewayVars

SpawnSpec == ManagerInit /\ [][SpawnNext]_vars

\* One request thread at a time beside the idle-checker threads, under the
\* running clock, with the process free to exit.
OneRequest == {1}

CheckerStep ==
  \/ \E t \in OneRequest : manager_stop(t)
  \/ \E t \in OneRequest : comfyui_proxy(t)
  \/ \E t \in OneRequest : start_comfyui(t)
  \/ \E t \in OneRequest \cup Checkers : stop_comfyui(t)
  \/ \E c \in Checkers : idle_checker_loop(c)
  \/ ProcExits
  \/ PortUp

CheckerNext ==
  \/ Tick
  \/ CheckerStep /\ UNCHANGED gatewayVars

CheckerSpec == ManagerInit /\ [][CheckerNext]_vars

\* ------------------------------------------------------------------- Next
Next ==
  \/ Tick
  \/ EnvContainer
  \/ EnvComfy
  \/ HandleRequest
  \/ ForwardDone
  \/ WaitBegin
  \/ WaitDone
  \/ MonitorStart
  \/ MonitorStop
  \/ MonitorInspect
  \/ MonitorPollDone
  \/ MonitorNotifyDone
  \/ ApiStart
  \/ ApiStop
  \/ ApiResetIdle
  \/ ApiConfigAutoStart
  \/ ApiConfigIdleTimeout
  \/ ApiConfigPollInterval
  \/ ApiStatusInspect
  \/ ApiStatusPollDone
  \/ LogEventCall
  \/ AddStateCallback
  \/ BackendResponds
  \/ ProxyRelay
  \/ RouteRequest
  \/ GetQueueStatus
  \/ EnvDaemon
  \/ ManagerStep /\ UNCHANGED gatewayVars

Spec == Init /\ [][Next]_vars

\* The activity log under the _log_event calls alone.
LogNext == LogEventCall

LogSpec == Init /\ [][LogNext]_vars

\* The gateway with the manual controls, the idle monitor not started.
ProxyNext ==
  \/ Tick
  \/ EnvContainer
  \/ EnvComfy
  \/ HandleRequest
  \/ ForwardDone
  \/ WaitBegin
  \/ WaitDone
  \/ ApiStart
  \/ ApiStop
  \/ ApiConfigAutoStart

ProxySpec == Init /\ [][ProxyNext]_vars

\* The idle monitor with the manual controls that touch what it reads.
MonitorNext ==
  \/ Tick
  \/ EnvContainer
  \/ EnvComfy
  \/ MonitorStart
  \/ MonitorStop
  \/ MonitorInspect
  \/ MonitorPollDone
  \/ MonitorNotifyDone
  \/ ApiStart
  \/ ApiResetIdle
  \/ ApiConfigIdleTimeout

MonitorSpec == Init /\ [][MonitorNext]_vars

\* The Backend Controller under the manual controls and the status endpoint.
ControllerNext ==
  \/ Tick
  \/ EnvContainer
  \/ EnvComfy
  \/ ApiStart
  \/ ApiStop
  \/ ApiStatusInspect
  \/ ApiStatusPollDone

ControllerSpec == Init /\ [][ControllerNext]_vars

\* Everything that assigns _last_activity outside the idle monitor: proxy
\* requests, the status endpoint's queue poll, manual start, manual reset.
ActivityNext ==
  \/ Tick
  \/ EnvContainer
  \/ EnvComfy
  \/ HandleRequest
  \/ ForwardDone
  \/ WaitBegin
  \/ WaitDone
  \/ ApiStart
  \/ ApiResetIdle
  \/ ApiStatusInspect
  \/ ApiStatusPollDone

ActivitySpec == Init /\ [][ActivityNext]_vars

\* The gateway and the idle monitor on the same event loop, the container
\* changed by nothing but the manager.
ServeNext ==
  \/ Tick
  \/ EnvComfy
  \/ HandleRequest
  \/ ForwardDone
  \/ WaitBegin
  \/ WaitDone
  \/ MonitorStart
  \/ MonitorInspect
  \/ MonitorPollDone
  \/ MonitorNotifyDone

ServeSpec == Init /\ [][ServeNext]_vars

\* The event loop runs every task that is ready: the readiness wait, once
\* created, starts, and its polls go on until it ends.
ProxyFairSpec == ProxySpec /\ WF_vars(WaitBegin) /\ WF_vars(WaitDone)

\* The idle monitor by itself, started and stopped by the lifespan of the
\* application.
CycleNext ==
  \/ Tick
  \/ EnvContainer
  \/ EnvComfy
  \/ MonitorStart
  \/ MonitorStop
  \/ MonitorInspect
  \/ MonitorPollDone
  \/ MonitorNotifyDone

CycleSpec == Init /\ [][CycleNext]_vars

\* The idle monitor and the requests of the gateway while the dashboard
\* changes the idle timeout and the poll interval.
SnapshotNext ==
  \/ Tick
  \/ HandleRequest
  \/ MonitorStart
  \/ MonitorInspect
  \/ MonitorPollDone
  \/ MonitorNotifyDone
  \/ ApiConfigIdleTimeout
  \/ ApiConfigPollInterval

SnapshotSpec == Init /\ [][SnapshotNext]_vars

\* The idle monitor on the event loop of the gateway, with the handlers
\* that assign _last_activity: proxy requests, manual start, manual reset.
\* The readiness wait, which reads and assigns none of what the monitor
\* uses, is left created.
IdleStopNext ==
  \/ Tick
  \/ EnvComfy
  \/ HandleRequest
  \/ ForwardDone
  \/ MonitorStart
  \/ MonitorInspect
  \/ MonitorPollDone
  \/ MonitorNotifyDone
  \/ ApiStart
  \/ ApiResetIdle

IdleStopSpec == Init /\ [][IdleStopNext]_vars

\* The queue polls of the ComfyUI client, whoever asks for them.
PollNext == Tick \/ EnvContainer \/ EnvComfy \/ GetQueueStatus

PollSpec == Init /\ [][PollNext]_vars

\* The requests the application routes.
RouteNext == RouteRequest

RouteSpec == Init /\ [][RouteNext]_vars

\* The responses _proxy_request relays.
RelayNext == BackendResponds \/ ProxyRelay

RelaySpec == Init /\ [][RelayNext]_vars

\* The idle monitor with subscribers registering for its notifications.
NotifyNext == CycleNext \/ AddStateCallback

NotifySpec == Init /\ [][NotifyNext]_vars

\* The monitor loop on the event loop: time passes, so a sleep ends, and the
\* loop task runs when its sleep has ended.
CycleFairSpec == CycleSpec /\ WF_vars(Tick) /\ WF_vars(MonitorInspect)

\* The gateway by itself, no manual control used: proxy requests, their
\* forwards and the readiness wait, with the wait task scheduled fairly.
WaitNext ==
  \/ Tick
  \/ EnvContainer
  \/ EnvComfy
  \/ HandleRequest
  \/ ForwardDone
  \/ WaitBegin
  \/ WaitDone

WaitSpec == Init /\ [][WaitNext]_vars

WaitFairSpec == WaitSpec /\ WF_vars(WaitBegin) /\ WF_vars(WaitDone)

\* The gateway with a manual stop and a Docker daemon that can be slow; time
\* passes and the wait task is scheduled fairly.
FlagNext ==
  \/ Tick
  \/ EnvContainer
  \/ EnvComfy
  \/ EnvDaemon
  \/ HandleRequest
  \/ ForwardDone
  \/ WaitBegin
  \/ WaitDone
  \/ ApiStop

FlagSpec == Init /\ [][FlagNext]_vars

FlagFairSpec ==
  FlagSpec /\ WF_vars(Tick) /\ WF_vars(WaitBegin) /\ WF_vars(WaitDone)

\* ================================================================ claims
Pages503 == {"initializing_503", "starting_503", "stopped_503"}
NotRunnable == {STOPPED, NOT_FOUND, ERROR}

\* C1: over every interleaving of proxy requests, at most one
\* start_container() call is issued by the proxy between the moment _starting
\* is set and the moment it is cleared: a request issues a start only when it
\* found the flag unset, and then issues exactly one.
C1_SingleFlightStart ==
  /\ proxy_starts <= 1
  /\ (ev.op = "request" /\ ev.start_calls > 0) =>
       (~ev.flag_before /\ ev.start_calls = 1)

\* C1 witness: a request that would start the backend (not runnable state,
\* auto-start on) arrives while the flag is set by an earlier start, and issues
\* no start.
C1_Witness ==
  /\ ev.op = "request"
  /\ ev.flag_before
  /\ ev.observed \in NotRunnable
  /\ ev.auto = TRUE
  /\ ev.start_calls = 0
  /\ proxy_starts = 1
  /\ forwarding > 0

\* C2 as claimed: a manual start issued while the single-flight flag is set
\* makes no start_container() call.
C2_ManualStartSingleFlight ==
  (ev.op = "api_start" /\ ev.flag_before) => ev.start_calls = 0

\* C3 as claimed, first part: the first request that finds the backend Stopped
\* with auto-start enabled issues exactly one start_container() call and gets
\* the 503 starting page.
C3_FirstRequestGets503 ==
  (ev.op = "request" /\ ev.observed = STOPPED /\ ev.auto = TRUE
     /\ ~ev.flag_before) =>
    (ev.start_calls = 1 /\ ev.resp = "starting_503")

\* C3 amended, the three steps of the scenario.
\* Start: the request that finds the backend Stopped with auto-start enabled
\* and the flag unset issues exactly one start_container() call; when the call
\* reports success the request gets the 503 starting page, the flag is set and
\* the readiness wait is scheduled.
C3_Start ==
  (ev.op = "request" /\ ev.observed = STOPPED /\ ev.auto = TRUE
     /\ ~ev.flag_before) =>
    /\ ev.start_calls = 1
    /\ ev.success = TRUE =>
         (ev.resp = "starting_503" /\ starting /\ wait_pc = "created")

\* Forward: a request that finds the backend Running is handed to the forward
\* and never answered with a starting page, whatever the flag; when the
\* backend answers, its response is relayed.
C3_Forward ==
  /\ (ev.op = "request" /\ ev.observed = RUNNING) =>
       (ev.resp = "-" /\ ev.start_calls = 0 /\ forwarding > 0)
  /\ (ev.op = "forward_done" /\ ev.outcome = "ok") => ev.resp = "forward"

\* Ready: once the backend is healthy, the readiness wait clears the flag
\* unless the backend stops being healthy first.
C3_Ready ==
  (starting /\ wait_pc # None /\ comfy_up) ~> (~starting \/ ~comfy_up)

\* C3 (amended): the scenario stopped -> request -> one start -> 503 starting
\* -> readiness observed, flag cleared -> requests forwarded.
C3_StartScenario == [](C3_Start /\ C3_Forward) /\ C3_Ready

\* C3 witness: a request was forwarded and answered by the backend while the
\* flag of the start that woke the backend is still set.
C3_Witness ==
  /\ ev.op = "forward_done"
  /\ ev.outcome = "ok"
  /\ ev.flag_before
  /\ proxy_starts = 1

\* C4: when inspection reports Running and the forward fails with connection
\* refused or timeout, the request is answered 503 with the initializing page,
\* never 502; it calls no start_container() and leaves the flag as it was.
C4_RunningUnreachable ==
  /\ (ev.op = "request" /\ ev.observed = RUNNING) =>
       (ev.start_calls = 0 /\ starting = ev.flag_before)
  /\ (ev.op = "forward_done" /\ ev.outcome \in {"refused", "timeout"}) =>
       /\ ev.resp = "initializing_503"
       /\ ev.start_calls = 0
       /\ starting = ev.flag_before

\* C4 witness: the container runs, the server inside refuses the connection.
C4_Witness ==
  /\ ev.op = "forward_done"
  /\ ev.outcome = "refused"
  /\ ev.live = "running"
  /\ ~ev.flag_before

\* C5 as claimed: a request that arrives while the backend is absent gets a
\* 503 page, makes no start_container() call and never sets the flag.
C5_AbsentNoStartCall ==
  (ev.op = "request" /\ ev.live = Absent) =>
    (ev.resp \in Pages503 /\ ev.start_calls = 0 /\ ~starting)

\* C5 (amended): a request that arrives while the backend is absent never
\* invokes the underlying start action and leaves the flag as it found it.
\* With the flag set it gets the 503 starting page; with auto-start disabled
\* the 503 stopped page; otherwise it calls start_container() once, which
\* reports failure NotFound, and gets the 500 page.
C5_AbsentNoStartAction ==
  (ev.op = "request" /\ ev.live = Absent) =>
    /\ ev.observed = NOT_FOUND
    /\ ev.start_actions = 0
    /\ starting = ev.flag_before
    /\ IF ev.flag_before
         THEN ev.resp = "starting_503" /\ ev.start_calls = 0
         ELSE IF ev.auto = TRUE
           THEN /\ ev.start_calls = 1
                /\ ev.success = FALSE
                /\ ev.result_state = NOT_FOUND
                /\ ev.resp = "start_failed_500"
           ELSE ev.resp = "stopped_503" /\ ev.start_calls = 0

\* C5 witness: the backend is absent, auto-start is enabled, the request
\* calls start_container() and gets the 500 page.
C5_Witness ==
  /\ ev.op = "request"
  /\ ev.live = Absent
  /\ ev.auto = TRUE
  /\ ev.start_calls = 1
  /\ ev.resp = "start_failed_500"

\* C6: in a monitor cycle where inspection reported Running, the queue poll
\* is connected with no running and no pending job, and the seconds since the
\* last activity, divided by 60, have reached the idle timeout in minutes, the
\* monitor issues exactly one stop_container() call.
C6_IdleStop ==
  (ev.op = "monitor_poll" /\ ev.connected = TRUE
     /\ ev.running = 0 /\ ev.pending = 0
     /\ now - last_activity >= 60 * ev.timeout_minutes) =>
    ev.stop_calls = 1

\* C6 witness: the idle time equals the timeout, the poll succeeds with an
\* empty queue, and the running container is stopped.
C6_Witness ==
  /\ ev.op = "monitor_poll"
  /\ ev.outcome = "ok"
  /\ ev.running = 0 /\ ev.pending = 0
  /\ now - last_activity = 60 * ev.timeout_minutes
  /\ ev.stop_calls = 1
  /\ ev.stop_actions = 1
  /\ container = "exited"

\* C7: in a monitor cycle whose queue poll reports running > 0 or
\* pending > 0, the monitor issues no stop_container() call, however long ago
\* the last activity was.
C7_ActiveNoStop ==
  (ev.op = "monitor_poll" /\ (ev.running > 0 \/ ev.pending > 0)) =>
    ev.stop_calls = 0

\* C7 witness: the idle time had reached the timeout when the poll found a
\* job in the queue, and no stop was issued.
C7_Witness ==
  /\ ev.op = "monitor_poll"
  /\ ev.running > 0
  /\ ev.pending = 0
  /\ ev.idle_before >= 60 * ev.timeout_minutes
  /\ ev.stop_calls = 0

\* C8: start_container() called when the live container already runs returns
\* success with state Running, does not invoke the underlying start action and
\* changes nothing: the container, the cached state and the state-change
\* timestamp stay as the call found them.
C8_StartWhenRunning ==
  [][(ev'.start_calls = 1 /\ ev'.container_before = "running") =>
       /\ ev'.success = TRUE
       /\ ev'.result_state = RUNNING
       /\ ev'.start_actions = 0
       /\ container' = container
       /\ comfy_up' = comfy_up
       /\ state' = (IF ev'.op = "request" THEN ev'.observed ELSE state)
       /\ state_changed_at' = state_changed_at]_vars

\* C8 witness: a manual start on a running container whose cached state is
\* stale; the cache is left alone.
C8_Witness ==
  /\ ev.op = "api_start"
  /\ ev.container_before = "running"
  /\ ev.success = TRUE
  /\ state = STOPPED
  /\ state_changed_at < now

\* A stop_container() call made in the current state, the Docker API
\* answering, changes nothing and returns what the last call returned.
SecondStopIsNoOp ==
  \A o \in StopOutcomes :
    LET res == StopContainer(GetContainer(TRUE), o, state, state_changed_at)
    IN /\ res.success
       /\ res.actions = 0
       /\ res.result_state = ev.result_state
       /\ res.container = container
       /\ res.state = state
       /\ res.changed_at = state_changed_at

\* C9: stop_container() called when the container is already stopped returns
\* success without invoking the underlying stop action and changes nothing;
\* and after a stop that returned success, a second stop is such a call, so
\* two stops in a row leave what one stop leaves.
C9_StopWhenStopped ==
  /\ [][(ev'.stop_calls = 1
           /\ StatusToState(ev'.container_before) = STOPPED) =>
          /\ ev'.success = TRUE
          /\ ev'.result_state = STOPPED
          /\ ev'.stop_actions = 0
          /\ container' = container
          /\ state' = state
          /\ state_changed_at' = state_changed_at]_vars
  /\ []((ev.stop_calls = 1 /\ ev.success = TRUE) => SecondStopIsNoOp)

\* C9 witness: a manual stop on a container that Docker reports exited.
C9_Witness ==
  /\ ev.op = "api_stop"
  /\ ev.container_before = "exited"
  /\ ev.success = TRUE
  /\ ev.stop_actions = 0

\* C10: _last_activity never goes backward, and no assignment to it makes
\* seconds_since_activity() larger.
C10_ActivityMonotonic ==
  [][/\ last_activity' >= last_activity
     /\ last_activity' # last_activity =>
          now' - last_activity' <= now - last_activity]_vars

\* C10 witness: a queue poll that found jobs moved _last_activity forward.
C10_Witness ==
  /\ ev.op = "status_poll"
  /\ ev.touched = "later"
  /\ last_activity = now

\* C11: the activity log never holds more than 100 entries; appending an
\* event to a full log drops exactly the oldest entry, and the entries that
\* remain are the newest 100 in their order of insertion; appending to a log
\* that is not full drops nothing.
C11_LogCapFifo ==
  /\ [](Len(activity_log) <= max_log_entries)
  /\ [](ev.op = "log_event" =>
          activity_log[Len(activity_log)] = ev.event)
  /\ [][IF Len(activity_log) = max_log_entries
          THEN /\ Len(activity_log') = max_log_entries
               /\ \A i \in 1..(max_log_entries - 1) :
                    activity_log'[i] = activity_log[i + 1]
               /\ activity_log'[max_log_entries] = NextEvent(activity_log)
               /\ \A i \in 1..max_log_entries :
                    activity_log'[i] # activity_log[1]
          ELSE activity_log' = Append(activity_log, NextEvent(activity_log))
       ]_activity_log

\* C11 witness: 102 events were logged; the log holds the events 3 to 102,
\* the first two are gone.
C11_Witness ==
  /\ ev.op = "log_event"
  /\ Len(activity_log) = max_log_entries
  /\ activity_log[1] = 3
  /\ activity_log[max_log_entries] = max_log_entries + 2

\* C12: every proxy request assigns _last_activity the current time before
\* the container is inspected and before any decision: after the first step of
\* every request, whatever its response (forwarded, 503 starting, 503 stopped,
\* 500 start failure) and even when the inspection raised, _last_activity is
\* the time of the request and has not moved backward.
C12_RequestTouchesFirst ==
  ev.op = "request" =>
    /\ last_activity = now
    /\ ev.touched \in {"later", "same"}

\* C12 witness: a request that ended in the 500 start-failure page moved
\* _last_activity forward.
C12_Witness ==
  /\ ev.op = "request"
  /\ ev.resp = "start_failed_500"
  /\ ev.touched = "later"
  /\ last_activity = now

\* The request that called start_container() and got a failure back.
StartFailed ==
  ev.op = "request" /\ ev.start_calls = 1 /\ ev.success = FALSE

\* C13: when the start_container() call of the single-flight sequence reports
\* failure, the request returns the 500 page with the flag cleared and no
\* readiness wait scheduled; the 500 page goes to no request but the one whose
\* start failed; and the next request that finds the backend Stopped with
\* auto-start enabled issues a new start_container() call.
C13_StartFailureClearsFlag ==
  /\ [](StartFailed =>
          /\ ev.resp = "start_failed_500"
          /\ ~starting
          /\ wait_pc = None
          /\ ProxyDecision(STOPPED, starting, TRUE) = "start_and_wait")
  /\ [](ev.resp = "start_failed_500" => StartFailed)
  /\ [][(StartFailed /\ ev'.op = "request" /\ ev'.observed = STOPPED
           /\ ev'.auto = TRUE) => ev'.start_calls = 1]_vars

\* C13 witness: Docker rejected the start of an exited container; the request
\* got the 500 page and the flag is clear.
C13_Witness ==
  /\ StartFailed
  /\ ev.container_before = "exited"
  /\ ev.result_state = ERROR
  /\ ev.resp = "start_failed_500"
  /\ ~starting

\* The readiness wait is pending: its task is created or polling.
WaitPending == wait_pc # None

\* C14: the request whose start_container() call succeeded returns the 503
\* starting page in the same step, with the readiness wait only created as a
\* task of its own and not yet run; and while the wait is pending, a new proxy
\* request, the completion of a forwarded request and every step of the idle
\* monitor that is due can be taken.
C14_WaitInBackground ==
  /\ (ev.op = "request" /\ ev.start_calls = 1 /\ ev.success = TRUE) =>
       (ev.resp = "starting_503" /\ wait_pc = "created" /\ starting)
  /\ WaitPending => ENABLED HandleRequest
  /\ (WaitPending /\ forwarding > 0) => ENABLED ForwardDone
  /\ (WaitPending /\ (mon_pc = "created"
                        \/ (mon_pc = "sleep" /\ now >= mon_wake))) =>
       ENABLED MonitorInspect
  /\ (WaitPending /\ mon_pc = "poll") => ENABLED MonitorPollDone
  /\ (WaitPending /\ mon_pc = "notify") => ENABLED MonitorNotifyDone

\* C14 witness: a cycle of the idle monitor polled the queue of the backend
\* while the readiness wait of a proxy-issued start was still polling.
C14_Witness ==
  /\ ev.op = "monitor_poll"
  /\ wait_pc = "polling"
  /\ starting
  /\ proxy_starts = 1

\* The startup timeout has elapsed for the readiness wait that is polling.
WaitOverdue ==
  wait_pc = "polling" /\ now - wait_start >= startup_timeout_seconds

\* The readiness wait ended by its timeout in the last step.
WaitTimedOut == ev.op = "wait_done" /\ ev.outcome = "timeout"

C16_StartingPageNoStart ==
  (ev.op = "request" /\ ev.observed \in ContainerState \ {RUNNING}
     /\ (ev.observed = STARTING \/ ev.flag_before)) =>
    /\ ev.resp = "starting_503"
    /\ ev.start_calls = 0
    /\ starting = ev.flag_before

\* C16 witness: Docker reports the container restarting, the flag is unset
\* and auto-start is enabled; the request gets the starting page and starts
\* nothing.
C16_Witness ==
  /\ ev.op = "request"
  /\ ev.observed = STARTING
  /\ ~ev.flag_before
  /\ ev.auto = TRUE
  /\ ev.resp = "starting_503"
  /\ ev.start_calls = 0
  /\ ~starting

\* A request that found the backend Stopped with auto-start disabled.
StoppedNoAuto(e) ==
  e.op = "request" /\ e.observed = STOPPED /\ e.auto = FALSE

\* C17 as claimed: with auto-start disabled, a request that finds the backend
\* Stopped gets the 503 stopped page and calls no start_container().
C17_StoppedPage ==
  StoppedNoAuto(ev) => (ev.resp = "stopped_503" /\ ev.start_calls = 0)

\* C17 (amended): with auto-start disabled, a request that finds the backend
\* Stopped never calls start_container(), never changes the flag and never
\* schedules a readiness wait; it gets the 503 stopped page when the flag is
\* unset, and the 503 starting page when the flag is still set by an earlier
\* start.
C17_StoppedNoStart ==
  /\ [](StoppedNoAuto(ev) =>
          /\ ev.start_calls = 0
          /\ starting = ev.flag_before
          /\ ev.resp = IF ev.flag_before THEN "starting_503"
                       ELSE "stopped_503")
  /\ [][StoppedNoAuto(ev') =>
          /\ starting' = starting
          /\ wait_pc' = wait_pc
          /\ wait_start' = wait_start
          /\ container' = container]_vars

\* C17 witness: auto-start disabled, flag unset, container exited: the
\* request gets the stopped page.
C17_Witness ==
  /\ StoppedNoAuto(ev)
  /\ ~ev.flag_before
  /\ ev.resp = "stopped_503"
  /\ ev.live = "exited"
  /\ wait_pc = None

\* The responses handle_request builds itself; "-" is a request suspended in
\* the forward, which is answered when the forward is done.
ProxyResponses ==
  Pages503 \cup {"forward", "start_failed_500", "proxy_error_502", "-"}

\* C18 as claimed: every proxy request ends with a response that
\* handle_request built (backend passthrough, a 503 page, the 500 start
\* failure page, 502): no exception of the inspection leaves handle_request.
C18_WellFormedResponse ==
  ev.op \in {"request", "forward_done"} =>
    (~ev.raised /\ ev.resp \in ProxyResponses)

\* The steps that call get_status().
InspectOps == {"request", "monitor_inspect", "status_inspect"}

\* C19 as claimed: get_status() never raises to its caller.
C19_InspectNeverRaises ==
  ev.op \in InspectOps => ~ev.raised

\* The values the clock takes.
Times == {t \in 0..MaxTime : t % TickSeconds = 0}

\* The inspection of the last monitor cycle raised.
CycleFailed == ev.op = "monitor_inspect" /\ ev.raised

\* C20: an exception raised inside a cycle of the idle monitor is caught: an
\* "error" event is logged, the monitor stays running and the loop goes to
\* its sleep of poll_interval_seconds; and when that sleep ends within the
\* time the clock covers, the next cycle takes place unless the monitor was
\* stopped.
C20_CycleErrorCaught ==
  /\ [](CycleFailed =>
          /\ mon_running
          /\ mon_pc = "sleep"
          /\ mon_wake = now + config.poll_interval_seconds
          /\ ev.logged # <<>>
          /\ ev.logged[Len(ev.logged)] = "error")
  /\ \A w \in Times :
       (CycleFailed /\ mon_wake = w) ~>
         (~mon_running \/ (ev.op = "monitor_inspect" /\ now >= w))

\* C20 witness: in a cycle after the first, get_status() raised while the
\* monitor was running; the error event is the only event of the cycle and
\* the loop sleeps.
C20_Witness ==
  /\ CycleFailed
  /\ ev.logged = <<"error">>
  /\ now > 0
  /\ mon_running
  /\ mon_pc = "sleep"
  /\ mon_wake <= MaxTime

\* C21: IdleMonitor.start() while the monitor is running changes nothing of
\* the monitor, and over every sequence of start() and stop() calls at most
\* one loop task is alive: exactly one while a task is suspended somewhere,
\* none otherwise.
C21_SingleMonitorTask ==
  /\ [](mon_tasks <= 1 /\ (mon_tasks = 1 <=> mon_pc # None))
  /\ [][(mon_running /\ ev'.op = "monitor_start")
          => (UNCHANGED monVars /\ ev'.outcome = "noop")]_vars

C21_Witness ==
  ev.op = "monitor_start" /\ ev.outcome = "noop" /\ mon_tasks = 1

\* The steps of _monitor_loop that inspect, poll, stop or notify.
LoopOps == {"monitor_inspect", "monitor_poll", "monitor_notified"}

\* C22: IdleMonitor.stop() cancels the loop task at the await it is
\* suspended in: after stop() no task is alive, and as long as the monitor is
\* not started again no step of the loop (inspection, queue poll,
\* stop_container() or notification) takes place.
C22_StopHaltsLoop ==
  /\ [](~mon_running => (mon_pc = None /\ mon_tasks = 0))
  /\ [][~mon_running => ev'.op \notin LoopOps]_vars

\* C22 witness: stop() was called while the loop was suspended in its queue
\* poll, and the task is gone.
C22_Witness ==
  /\ ev.op = "monitor_stop"
  /\ ev.cancelled_at = "poll"
  /\ ~mon_running
  /\ mon_pc = None
  /\ mon_tasks = 0

\* The broadcast that follows a successful idle shutdown has ended.
Notified == ev.op = "monitor_notified"

\* C23: the broadcast after a successful idle shutdown invokes every
\* registered callback once, in registration order, whichever of them raise;
\* nothing is raised into the cycle, no error is logged, and the loop stays
\* alive and goes to its sleep.  A broadcast ends otherwise only when
\* IdleMonitor.stop() cancels the task, and then it has invoked the
\* callbacks up to the one it was suspended in, in registration order.
C23_CallbacksIsolated ==
  /\ [](Notified =>
          /\ ev.notified = state_callbacks
          /\ ~ev.raised
          /\ ev.logged = <<>>
          /\ mon_running
          /\ mon_tasks = 1
          /\ mon_pc = "sleep")
  /\ [][(mon_pc = "notify" /\ mon_pc' # "notify")
          => \/ ev'.op = "monitor_notified"
             \/ /\ ev'.op = "monitor_stop"
                /\ \E k \in 0..Len(state_callbacks) :
                     ev'.notified = SubSeq(state_callbacks, 1, k)]_vars

\* C23 witness: two callbacks are registered, the first of them raised, and
\* both were invoked.
C23_Witness ==
  /\ Notified
  /\ Len(state_callbacks) = 2
  /\ state_callbacks[1] \in ev.failed
  /\ ev.notified = state_callbacks

\* C24: a relayed response has the backend's status code, the backend's body
\* byte for byte, and the backend's headers without the hop-by-hop ones.
C24_RelayedEqualsBackend ==
  ev.op = "proxy_relay" =>
    /\ response.relayed.status_code = response.backend.status_code
    /\ response.relayed.content = response.backend.content
    /\ response.relayed.headers =
         [k \in DOMAIN response.backend.headers \ hop_by_hop |->
            response.backend.headers[k]]

\* The path is a reserved management prefix or lies below one.
UnderReserved(path) ==
  \E prefix \in ReservedPrefixes :
    path = prefix \/ StartsWith(path, prefix \o <<"/">>)

\* C25: a request whose path is not under a reserved management prefix is
\* handled by the gateway, whatever its method; a request under a reserved
\* prefix is handled by nothing that touches the activity tracker or starts
\* the backend.
C25_EveryRequestThroughGateway ==
  ev.op = "route" =>
    IF UnderReserved(request.path)
      THEN ~HandlerTouches(request.handler) /\ ~HandlerStarts(request.handler)
      ELSE request.handler = "gateway"

\* The events of type t among those a step logged.
LoggedOf(t) == {i \in DOMAIN ev.logged : ev.logged[i] = t}

\* C26: a cycle whose inspection does not report Running goes to its sleep
\* with no queue poll and no stop_container() call, and the loop polls only
\* after an inspection that reported Running; a cycle whose queue poll
\* reports connected = false goes to its sleep with no stop_container() call
\* and no shutdown event, whatever the idle time.
C26_NoStopUnlessRunningAndConnected ==
  /\ []((ev.op = "monitor_inspect" /\ (ev.raised \/ ev.observed # RUNNING))
          => /\ mon_pc = "sleep"
             /\ ev.stop_calls = 0
             /\ LoggedOf("shutdown") = {})
  /\ []((ev.op = "monitor_inspect" /\ mon_pc = "poll")
          => (ev.observed = RUNNING /\ ~ev.raised /\ ev.stop_calls = 0))
  /\ []((ev.op = "monitor_poll" /\ ev.connected = FALSE)
          => /\ mon_pc = "sleep"
             /\ ev.stop_calls = 0
             /\ LoggedOf("shutdown") = {})
  /\ [][ev'.op = "monitor_poll" => mon_pc = "poll"]_vars

\* C26 witness: the queue poll failed to connect when the idle time had
\* reached the timeout, and nothing was stopped.
C26_Witness ==
  /\ ev.op = "monitor_poll"
  /\ ev.connected = FALSE
  /\ ev.idle_before >= ev.timeout_minutes * 60
  /\ ev.stop_calls = 0
  /\ mon_pc = "sleep"

\* The idle monitor called stop_container() and the call reported failure.
MonitorStopFailed ==
  ev.op = "monitor_poll" /\ ev.stop_calls = 1 /\ ev.success = FALSE

\* C27: when the monitor's stop_container() call reports failure, the cycle
\* logs an "error" event after the "shutdown" event, does not enter the
\* notification of the subscribers, and goes to its sleep; and the loop
\* leaves its sleep only by a fresh inspection, or by being stopped.
C27_StopFailureLogged ==
  /\ [](MonitorStopFailed =>
          /\ ev.logged = <<"shutdown", "error">>
          /\ mon_pc = "sleep"
          /\ mon_running)
  /\ [][(mon_pc = "sleep" /\ mon_pc' # "sleep")
          => ev'.op \in {"monitor_inspect", "monitor_stop"}]_vars
  /\ [][ev'.op = "monitor_notified" => mon_pc = "notify"]_vars

\* C27 witness: the container was running and idle past the timeout, and the
\* stop the monitor asked for failed.
C27_Witness ==
  /\ MonitorStopFailed
  /\ ev.logged = <<"shutdown", "error">>
  /\ mon_pc = "sleep"
  /\ state = ERROR

\* A start_container() or stop_container() call was made in the last step.
ActionCalled == ev.start_calls = 1 \/ ev.stop_calls = 1

\* C28: the cached state becomes Error only in a step whose start or stop
\* call failed, and after a start_container() or stop_container() call that
\* returned success the cached state is not Error.
C28_ErrorOnlyOnFailureAndRecoverable ==
  /\ []((ActionCalled /\ ev.success = TRUE) => state # ERROR)
  /\ [][(state # ERROR /\ state' = ERROR)
          => /\ ev'.start_calls = 1 \/ ev'.stop_calls = 1
             /\ ev'.success = FALSE]_vars

\* The last step was a queue poll that was answered with a queue.
PollSucceeded == ev.op = "queue_poll" /\ ev.outcome = "ok"
PollFailed == ev.op = "queue_poll" /\ ev.outcome # "ok"

\* C29: a queue poll sets _last_activity to the time of the poll when it
\* succeeds with running > 0 or pending > 0, and leaves it as it was when it
\* fails or reports an empty queue; a failed poll leaves the stored snapshot
\* as it was, and a successful one stores what it reports.
C29_PollUpdatesActivityIffActive ==
  /\ [][(PollSucceeded' /\ (ev'.running > 0 \/ ev'.pending > 0))
          => last_activity' = now']_vars
  /\ [][(PollSucceeded' /\ ev'.running = 0 /\ ev'.pending = 0)
          => last_activity' = last_activity]_vars
  /\ [][PollFailed'
          => (last_activity' = last_activity /\ last_status' = last_status)]_vars
  /\ [][PollSucceeded'
          => /\ last_status'.running = ev'.running
             /\ last_status'.pending = ev'.pending
             /\ last_status'.connected]_vars
  /\ [][last_activity' # last_activity \/ last_status' # last_status
          => PollSucceeded']_vars

\* C29 witness: after a poll stored a snapshot and time passed, a poll
\* failed; the snapshot and the activity time are those of before.
C29_Witness ==
  /\ PollFailed
  /\ last_status # NoStatus
  /\ now > last_activity

\* The idle monitor evaluated a queue poll that connected and found the
\* queue empty.
IdleEvaluated ==
  /\ ev.op = "monitor_poll"
  /\ ev.connected = TRUE
  /\ ev.running = 0 /\ ev.pending = 0
  /\ ev.outcome = "ok"

\* C30: an iteration of the idle monitor that goes on to the queue poll
\* holds the configuration it read at its start, whatever updates are made
\* meanwhile; the poll is evaluated against the idle timeout of that
\* snapshot and the sleep that follows lasts the poll interval of that
\* snapshot; the next iteration reads the configuration again; and the
\* configuration changes only in a PUT /api/config step.
C30_IterationUsesSnapshot ==
  /\ [][(ev'.op = "monitor_inspect" /\ mon_pc' = "poll")
          => mon_config' = config]_vars
  /\ [][(mon_pc = "poll" /\ mon_pc' = "poll") => mon_config' = mon_config]_vars
  /\ [][ev'.op = "monitor_poll"
          => /\ ev'.timeout_minutes = mon_config.idle_timeout_minutes
             /\ mon_pc' = "sleep"
                  => mon_wake' = now + mon_config.poll_interval_seconds]_vars
  /\ [][IdleEvaluated'
          => (ev'.stop_calls = 1
                <=> ev'.idle_before >= 60 * mon_config.idle_timeout_minutes)]_vars
  /\ [][ev'.op = "monitor_notified"
          => mon_wake' = now + mon_config.poll_interval_seconds]_vars
  /\ [][config' # config => ev'.op = "api_config"]_vars

\* C30 witness: the idle timeout and the poll interval were both changed
\* while the iteration was in its queue poll; the iteration stopped the
\* container on the timeout it had read, which the idle time had reached
\* while it had not reached the new one, and sleeps the interval it had read.
C30_Witness ==
  /\ IdleEvaluated
  /\ ev.stop_calls = 1
  /\ ev.timeout_minutes # config.idle_timeout_minutes
  /\ ev.idle_before < 60 * config.idle_timeout_minutes
  /\ mon_pc = "sleep"
  /\ mon_wake # now + config.poll_interval_seconds

\* ---- C31
\* C31: whenever the single-flight flag _starting is set it is eventually
\* cleared again, on every path of the start sequence: the start returning
\* failure, the start raising an unexpected exception, readiness achieved,
\* and the readiness timeout.
\* The modelled clock stops at MaxTime: a readiness wait whose timeout has
\* not elapsed by then stands for a wait that ends later, so the flag has
\* to be cleared, or be in the hands of such a wait.
WaitInTime == wait_pc # None /\ ~WaitOverdue

C31_FlagEventuallyCleared == starting ~> (~starting \/ WaitInTime)

\* The flag is set and no readiness wait exists that would clear it.
StaleFlag == starting /\ wait_pc = None

\* C31, the path that leaves the flag set: start_container() raised in the
\* request that set the flag, and no readiness wait was created.
C31_RaisedStartLeavesFlag ==
  /\ ev.op = "request"
  /\ ev.start_raised
  /\ ~ev.flag_before
  /\ StaleFlag

\* ---- C32
\* C32: at most one _wait_for_ready task is pending at any time, and the
\* single-flight flag is set for as long as one is pending: a readiness wait
\* is created only by a request that found the flag unset and no wait
\* pending, and that leaves the flag set; the flag is cleared while a wait
\* is pending only by that wait ending.
C32_SingleReadinessWait ==
  /\ [](wait_tasks <= 1 /\ (wait_tasks = 1 => starting))
  /\ [](wait_tasks = 1 <=> wait_pc # None)
  /\ [][wait_tasks' > wait_tasks
          => /\ ~starting
             /\ wait_tasks = 0
             /\ starting'
             /\ ev'.op = "request"
             /\ ev'.start_calls = 1]_vars
  /\ [][(wait_tasks = 1 /\ ~starting')
          => (ev'.op = "wait_done" /\ wait_tasks' = 0)]_vars

\* C32 witness: a request arrived while a readiness wait was pending; it
\* found the flag set, issued no start and created no second wait.
C32_Witness ==
  /\ ev.op = "request"
  /\ ev.flag_before
  /\ ev.start_calls = 0
  /\ ev.resp = "starting_503"
  /\ wait_tasks = 1
  /\ wait_pc = "polling"
  /\ starting

\* ---- C33
\* A proxy request found the backend Stopped with auto-start enabled.
StoppedRequest ==
  /\ ev.op = "request"
  /\ ~ev.raised
  /\ ev.observed = STOPPED
  /\ ev.auto

\* Such a request issued a start_container() call.
AutoStartIssued == StoppedRequest /\ ev.start_calls = 1

\* C33: if the backend stays Stopped with auto-start enabled and proxy
\* requests keep arriving, a start_container() call is issued again and
\* again: no stale flag and no manual stop made during a readiness wait
\* suppresses auto-start for ever.  (The modelled clock stops, so a wait
\* whose timeout has not elapsed counts as one that will still end.)
C33_AutoStartNotSuppressed ==
  []<>StoppedRequest => []<>(AutoStartIssued \/ WaitInTime)

\* C33, the suppressing state: a request finds the backend Stopped with
\* auto-start enabled and is answered with the starting page, without a
\* start, because of a flag that no readiness wait is left to clear.
C33_StaleFlagSuppresses ==
  /\ StoppedRequest
  /\ ev.flag_before
  /\ ev.start_calls = 0
  /\ ev.resp = "starting_503"
  /\ StaleFlag

\* ---- C34
\* The monitor issued stop_container() for an idle shutdown in the last step.
IdleStopIssued == ev.op = "monitor_poll" /\ ev.stop_calls = 1

\* C34: at the instant the monitor issues stop_container() for an idle
\* shutdown, the seconds since the last activity still reach the idle
\* timeout: the stop is issued in the step that compared them, so no proxy
\* request, manual start or manual reset assigns _last_activity in between;
\* these assign it only in steps of their own.
C34_IdleAtStop ==
  /\ [](IdleStopIssued =>
          /\ SecondsSinceActivity(last_activity) >= 60 * ev.timeout_minutes
          /\ ev.idle_before >= 60 * ev.timeout_minutes
          /\ ev.touched = "same")
  /\ [][IdleStopIssued' => (last_activity' = last_activity /\ now' = now)]_vars
  /\ [][last_activity' # last_activity
          => ev'.op \in {"request", "api_start", "api_reset_idle",
                         "monitor_poll", "status_poll"}]_vars

\* C34 witness: a proxy request assigned _last_activity while the monitor
\* was suspended in its queue poll, and is still being forwarded; a minute
\* later the next cycle found the queue empty and the idle time at the
\* timeout, and stopped the container.
C34_Witness ==
  /\ IdleStopIssued
  /\ ev.stop_actions = 1
  /\ forwarding > 0
  /\ last_activity > 0
  /\ SecondsSinceActivity(last_activity) = 60 * ev.timeout_minutes

\* ---- C35
\* The last step was a stop_container() call that returned success.
StopSucceeded == ev.stop_calls = 1 /\ ev.success = TRUE

\* C35: a stop_container() call that returned success leaves the backend
\* not running: in the step after it, inspection reports Running only if
\* that step issued a start, by start_container() or by hand on the stopped
\* container.  This includes a stop called on a container that Docker
\* reports as created or restarting.
C35_StopLeavesNotRunning ==
  [][(StopSucceeded /\ StatusToState(container') = RUNNING)
       => \/ ev'.start_calls = 1
          \/ (ev'.op = "none" /\ StatusToState(container) = STOPPED)]_vars

\* C35, the stop that stops nothing: the container was restarting when
\* stop_container() fetched it; the call returned success without invoking
\* container.stop(), and the container is still restarting.
C35_StopSkipsStartingContainer ==
  /\ StopSucceeded
  /\ ev.container_before = "restarting"
  /\ ev.result_state = STOPPED
  /\ ev.stop_actions = 0
  /\ container = "restarting"

\* ---- C36
\* The last step was the monitor's queue poll, and the poll did not succeed:
\* its QueueStatus carries an error.
MonitorPollFailed == ev.op = "monitor_poll" /\ ev.outcome # "ok"

\* C36: a queue poll that did not succeed, an HTTP error status returned by
\* the queue endpoint included, never makes the idle monitor stop the
\* backend in that cycle.
C36_FailedPollNoStop == MonitorPollFailed => ev.stop_calls = 0

\* C36, the stop after a failed poll: the queue endpoint answered with an
\* HTTP error status, the idle time had reached the timeout, and the
\* monitor stopped the running container.
C36_HttpErrorStops ==
  /\ MonitorPollFailed
  /\ ev.outcome = "http_error"
  /\ ev.connected = TRUE
  /\ ev.idle_before >= 60 * ev.timeout_minutes
  /\ ev.stop_calls = 1
  /\ ev.stop_actions = 1
  /\ container = "exited"

\* ---- C37
\* C37: in the thread-based manager, whatever the interleaving of
\* start_comfyui() and stop_comfyui() calls, a subprocess is spawned only
\* when no spawned subprocess is alive and no other thread is inside a
\* start.
C37_SingleSpawn ==
  mgr_ev.op = "spawn" =>
    (~mgr_ev.others_alive /\ ~mgr_ev.starting_elsewhere)

\* C37, the second subprocess: a subprocess was spawned while an earlier one
\* was alive.
C37_SpawnedBesideLiveProcess ==
  /\ mgr_ev.op = "spawn"
  /\ mgr_ev.others_alive
  /\ Cardinality(Alive(procs)) = 2

\* A subprocess is alive that the manager holds no handle of, and no call is
\* under way that could still kill it.
Orphaned ==
  /\ process = 0
  /\ Alive(procs) # {}
  /\ \A t \in Requests \cup Checkers :
       threads[t].pc \notin {"stop_term", "stop_wait", "start_popen"}

\* ---- C38
\* The checker threads inside their loop.
Looping == {c \in Checkers : threads[c].pc \in {"loop_test", "sleep",
                                                "read_idle"}}

\* C38: in the thread-based manager at most one idle-checker thread is
\* looping at any time.
C38_SingleChecker == Cardinality(Looping) <= 1

\* C38, the revived checker: two checker threads have read the idle time in
\* their loops, the stop event being clear.
C38_TwoCheckersLoop ==
  /\ Cardinality(Looping) = 2
  /\ \A c \in Looping : threads[c].pc = "read_idle"
  /\ ~stop_idle_checker

\* ---- C39
\* The idle checker terminated the process in the last step.
CheckerKilled == mgr_ev.op = "kill" /\ mgr_ev.by \in Checkers

\* C39: in the thread-based manager, when the idle checker terminates the
\* process the seconds since the last activity have reached idle_timeout at
\* that moment, and no request that recorded its activity meanwhile is being
\* served by the process.
C39_IdleAtKill ==
  CheckerKilled => (mgr_ev.idle >= idle_timeout /\ ~mgr_ev.in_flight)

\* C39, the late kill: the checker read an idle time that had reached the
\* timeout; a request thread then recorded its activity and was forwarded
\* to the process; the checker killed the process serving it.
C39_KilledWhileServing ==
  /\ CheckerKilled
  /\ threads[mgr_ev.by].idle >= idle_timeout
  /\ mgr_ev.idle < idle_timeout
  /\ mgr_ev.in_flight
====
